---------------------------- MODULE Spec2Model ----------------------------
(***************************************************************************)
(* Model of the CUSDEC field extractor of src/first.py: label location,    *)
(* cage expansion, reading-order reconstruction, the field parsers and the *)
(* process_cusdec_pdf pipeline.                                            *)
(*                                                                         *)
(* Text is modelled by TLA+ strings, read character by character.  Lengths *)
(* are in thousandths of a point, so that round(y, 1) and round(y, 2) of   *)
(* the source are roundings to multiples of 100 and of 10.                 *)
(***************************************************************************)
EXTENDS Integers, Sequences, FiniteSets, TLC

VARIABLES
    upc,            \* position of the unit under call: "none", "call" or "ret"
    args,           \* the arguments the unit is called with
    ret,            \* what the unit returned
    library,        \* the files the user has at hand to upload
    frames,         \* per session, the running call of process_cusdec_pdf
    tmpfiles,       \* the temporary directory: path -> content
    session_state,  \* per session, st.session_state
    returned        \* per file, the mapping its first call returned

unit_vars == <<upc, args, ret>>

app_vars == <<library, frames, tmpfiles, session_state, returned>>

vars == <<upc, args, ret, library, frames, tmpfiles, session_state, returned>>

-----------------------------------------------------------------------------
(* Python str and re primitives used by the source.                        *)

Ch(s, i) == SubSeq(s, i, i)

Digits == {"0", "1", "2", "3", "4", "5", "6", "7", "8", "9"}

\* \s of the re module on the characters that occur in page text
Spaces == {" ", "\t", "\n"}

UpperChars == "ABCDEFGHIJKLMNOPQRSTUVWXYZ"

LowerChars == "abcdefghijklmnopqrstuvwxyz"

RECURSIVE IndexIn(_, _, _)
\* position of character c in s at or after i, 0 when absent
IndexIn(c, s, i) ==
    IF i > Len(s) THEN 0
    ELSE IF Ch(s, i) = c THEN i
    ELSE IndexIn(c, s, i + 1)

UpperSet == {Ch(UpperChars, i) : i \in 1..Len(UpperChars)}

LowerSet == {Ch(LowerChars, i) : i \in 1..Len(LowerChars)}

LowerOf == [c \in UpperSet |-> Ch(LowerChars, IndexIn(c, UpperChars, 1))]

UpperOf == [c \in LowerSet |-> Ch(UpperChars, IndexIn(c, LowerChars, 1))]

LowerCh(c) == IF c \in UpperSet THEN LowerOf[c] ELSE c

UpperCh(c) == IF c \in LowerSet THEN UpperOf[c] ELSE c

RECURSIVE Lower(_)
\* str.lower()
Lower(s) == IF s = "" THEN "" ELSE LowerCh(Head(s)) \o Lower(Tail(s))

RECURSIVE Upper(_)
\* str.upper()
Upper(s) == IF s = "" THEN "" ELSE UpperCh(Head(s)) \o Upper(Tail(s))

StartsAt(s, sub, i) ==
    /\ i + Len(sub) - 1 <= Len(s)
    /\ SubSeq(s, i, i + Len(sub) - 1) = sub

\* sub in s
Contains(s, sub) == \E i \in 1..(Len(s) + 1) : StartsAt(s, sub, i)

RECURSIVE LStrip(_)
LStrip(s) ==
    IF s = "" THEN ""
    ELSE IF Head(s) \in Spaces THEN LStrip(Tail(s))
    ELSE s

RECURSIVE RStrip(_)
RStrip(s) ==
    IF s = "" THEN ""
    ELSE IF Ch(s, Len(s)) \in Spaces THEN RStrip(SubSeq(s, 1, Len(s) - 1))
    ELSE s

\* str.strip()
Strip(s) == RStrip(LStrip(s))

RECURSIVE Join(_)
\* " ".join(lines)
Join(lines) ==
    IF lines = <<>> THEN ""
    ELSE IF Len(lines) = 1 THEN lines[1]
    ELSE lines[1] \o " " \o Join(Tail(lines))

RECURSIVE RemoveCommas(_)
\* s.replace(',', '')
RemoveCommas(s) ==
    IF s = "" THEN ""
    ELSE IF Head(s) = "," THEN RemoveCommas(Tail(s))
    ELSE Head(s) \o RemoveCommas(Tail(s))

DigitVal(c) == IndexIn(c, "0123456789", 1) - 1

RECURSIVE NatOf(_)
NatOf(s) ==
    IF s = "" THEN 0
    ELSE 10 * NatOf(SubSeq(s, 1, Len(s) - 1)) + DigitVal(Ch(s, Len(s)))

ValueError == [ok |-> FALSE, val |-> 0]

\* float(s) on what the parsers hand it: a run of digits converts, the
\* empty string (a token made of commas only) raises ValueError
ToFloat(s) ==
    IF s # "" /\ \A i \in 1..Len(s) : Ch(s, i) \in Digits
    THEN [ok |-> TRUE, val |-> NatOf(s)]
    ELSE ValueError

RECURSIVE SkipClass(_, _, _)
\* index after the longest run of characters of class cls starting at i
SkipClass(s, i, cls) ==
    IF i <= Len(s) /\ Ch(s, i) \in cls THEN SkipClass(s, i + 1, cls) ELSE i

RECURSIVE FindAllFrom(_, _, _)
FindAllFrom(s, i, cls) ==
    IF i > Len(s) THEN <<>>
    ELSE IF Ch(s, i) \in cls
         THEN LET j == SkipClass(s, i, cls)
              IN  <<SubSeq(s, i, j - 1)>> \o FindAllFrom(s, j, cls)
         ELSE FindAllFrom(s, i + 1, cls)

\* re.findall(r'[\d,]+', s)
FindNumbers(s) == FindAllFrom(s, 1, Digits \cup {","})

NoMatch == [found |-> FALSE]

\* the least element of a non-empty set of integers
Least(S) == CHOOSE i \in S : \A j \in S : i <= j

\* the sequences of at most n elements of S
SeqsUpTo(S, n) == UNION {[1..k -> S] : k \in 0..n}

-----------------------------------------------------------------------------
(* extract_vat_amount_from_tax_table                                       *)

RECURSIVE VatFlagSplit(_, _, _)
\* ([\d,]+)\s*([01]) on the run s[p5 .. p6-1]: the amount is tried longest
\* first; after the whole run \s* may skip blanks, after a shorter one the
\* flag is the run's next character.
VatFlagSplit(s, p5, k) ==
    IF k <= p5 THEN NoMatch
    ELSE LET q == IF k <= Len(s) /\ Ch(s, k) \in Spaces
                  THEN SkipClass(s, k, Spaces) ELSE k
         IN  IF q <= Len(s) /\ Ch(s, q) \in {"0", "1"}
             THEN [found |-> TRUE, amount |-> SubSeq(s, p5, k - 1),
                   flag |-> Ch(s, q)]
             ELSE VatFlagSplit(s, p5, k - 1)

\* the pattern of line 282 anchored at position i
VatMatchAt(s, i) ==
    IF ~(StartsAt(s, "VAT", i) \/ StartsAt(s, "VTD", i)) THEN NoMatch
    ELSE LET p1 == SkipClass(s, i + 3, Spaces)
             p2 == SkipClass(s, p1, Digits \cup {",", "."})
             p3 == SkipClass(s, p2, Spaces)
             p4 == SkipClass(s, p3, Digits \cup {",", "."})
             p5 == SkipClass(s, p4, Spaces)
             p6 == SkipClass(s, p5, Digits \cup {","})
         IN  IF p1 > i + 3 /\ p2 > p1 /\ p3 > p2 /\ p4 > p3 /\ p5 > p4
             THEN VatFlagSplit(s, p5, p6)
             ELSE NoMatch

\* re.search: the leftmost position at or after i where the pattern matches
VatSearch(s, i) ==
    LET hits == {k \in i..Len(s) : VatMatchAt(s, k).found}
    IN  IF hits = {} THEN NoMatch ELSE VatMatchAt(s, Least(hits))

\* VatLineTier taking the third token whatever the fourth is
VatLineTier_NoFlag(line) ==
    LET up == Upper(line)
        numbers == FindNumbers(line)
    IN  IF ~(Contains(up, "VAT") \/ Contains(up, "VTD")) THEN ValueError
        ELSE IF Len(numbers) >= 3
             THEN ToFloat(RemoveCommas(numbers[3]))
        ELSE ValueError

\* one line of the line-by-line tier (lines 301-322): a value when the line
\* makes the function return, nothing when the loop goes on
VatLineTier(line) ==
    LET up == Upper(line)
        numbers == FindNumbers(line)
    IN  IF ~(Contains(up, "VAT") \/ Contains(up, "VTD")) THEN ValueError
        ELSE IF Len(numbers) >= 4
             THEN IF numbers[4] = "1"
                  THEN ToFloat(RemoveCommas(numbers[3]))
                  ELSE [ok |-> TRUE, val |-> 0]
        ELSE IF Len(numbers) >= 3
             THEN ToFloat(RemoveCommas(numbers[3]))
        ELSE ValueError

RECURSIVE VatFallback(_)
VatFallback(lines) ==
    IF lines = <<>> THEN 0
    ELSE LET r == VatLineTier(Head(lines))
         IN  IF r.ok THEN r.val ELSE VatFallback(Tail(lines))

\* VatPrimary without the test of the trailing flag
VatPrimary_NoGate(lines) ==
    LET m == VatSearch(Join(lines), 1)
    IN  IF ~m.found THEN ValueError
        ELSE ToFloat(RemoveCommas(m.amount))

\* the pattern tier (lines 278-297): a value when it returns
VatPrimary(lines) ==
    LET m == VatSearch(Join(lines), 1)
    IN  IF ~m.found THEN ValueError
        ELSE IF m.flag = "1" THEN ToFloat(RemoveCommas(m.amount))
        ELSE [ok |-> TRUE, val |-> 0]

extract_vat_amount_from_tax_table(lines) ==
    LET r == VatPrimary(lines)
    IN  IF r.ok THEN r.val ELSE VatFallback(lines)

-----------------------------------------------------------------------------
(* fitz geometry.  Lengths are integers, 1000 to the point.                *)

Pt(n) == n * 1000

Max(a, b) == IF a >= b THEN a ELSE b

Min(a, b) == IF a <= b THEN a ELSE b

Rect(x0, y0, x1, y1) == [x0 |-> x0, y0 |-> y0, x1 |-> x1, y1 |-> y1]

\* the bounding box of a block or word tuple: fitz.Rect(w[:4])
RectOf(w) == Rect(w.x0, w.y0, w.x1, w.y1)

\* fitz.Rect.is_empty
IsEmpty(r) == r.x0 >= r.x1 \/ r.y0 >= r.y1

\* fitz.Rect.intersects: neither rectangle is empty and their common part
\* has a positive area
Intersects(a, b) ==
    /\ ~IsEmpty(a)
    /\ ~IsEmpty(b)
    /\ Max(a.x0, b.x0) < Min(a.x1, b.x1)
    /\ Max(a.y0, b.y0) < Min(a.y1, b.y1)

\* page.rect: the page's box, its origin at (0, 0)
PageRect(page) == Rect(0, 0, page.width, page.height)

\* expand_rect without the clamp of the right and lower edges
expand_rect_NoClamp(rect, page, right_px, down_px) ==
    Rect(Max(0, rect.x0 - Pt(4)), Max(0, rect.y0 - Pt(2)),
         rect.x1 + right_px, rect.y1 + down_px)

expand_rect(rect, page, right_px, down_px) ==
    Rect(Max(0, rect.x0 - Pt(4)),
         Max(0, rect.y0 - Pt(2)),
         Min(PageRect(page).x1 - Pt(5), rect.x1 + right_px),
         Min(PageRect(page).y1 - Pt(5), rect.y1 + down_px))

-----------------------------------------------------------------------------
(* find_label_rect_on_page                                                 *)

None == [none |-> TRUE]

LowerKeywords(keywords) == {Lower(k) : k \in keywords}

\* any(k in lower_text for k in lower_keywords) on the stripped text
KeywordHit(text, keywords) ==
    LET lower_text == Lower(Strip(text))
    IN  \E k \in LowerKeywords(keywords) : Contains(lower_text, k)

RECURSIVE FirstHit(_, _, _)
\* index of the first tuple of seq at or after i whose text holds a
\* keyword, 0 when there is none: the two for loops of lines 47 and 54
FirstHit(seq, keywords, i) ==
    IF i > Len(seq) THEN 0
    ELSE IF KeywordHit(seq[i].text, keywords) THEN i
    ELSE FirstHit(seq, keywords, i + 1)

Found(w) == [none |-> FALSE, rect |-> RectOf(w), text |-> Strip(w.text)]

\* the block pass returning the last block that matches, not the first
BlockPass_Last(page, keywords) ==
    LET hits == {i \in DOMAIN page.blocks :
                    KeywordHit(page.blocks[i].text, keywords)}
    IN  IF hits = {} THEN None
        ELSE Found(page.blocks[CHOOSE i \in hits : \A j \in hits : j <= i])

\* lines 47-51
BlockPass(page, keywords) ==
    LET i == FirstHit(page.blocks, keywords, 1)
    IN  IF i = 0 THEN None ELSE Found(page.blocks[i])

\* the word pass returning the last word that matches, not the first
WordPass_Last(page, keywords) ==
    LET hits == {i \in DOMAIN page.words :
                    KeywordHit(page.words[i].text, keywords)}
    IN  IF hits = {} THEN None
        ELSE Found(page.words[CHOOSE i \in hits : \A j \in hits : j <= i])

\* lines 54-58
WordPass(page, keywords) ==
    LET i == FirstHit(page.words, keywords, 1)
    IN  IF i = 0 THEN None ELSE Found(page.words[i])

find_label_rect_on_page(page, keywords) ==
    LET b == BlockPass(page, keywords)
    IN  IF ~b.none THEN b ELSE WordPass(page, keywords)

-----------------------------------------------------------------------------
(* extract_text_in_rect                                                    *)

\* round(y, n) as rounding to the nearest multiple of step, a tie going to
\* the even multiple
RoundTo(y, step) ==
    LET q == y \div step
        r == y % step
    IN  IF 2 * r < step THEN q * step
        ELSE IF 2 * r > step THEN (q + 1) * step
        ELSE IF q % 2 = 0 THEN q * step ELSE (q + 1) * step

\* round(w[1], 2)
Round2(y) == RoundTo(y, 10)

\* round(w[1], 1)
Round1(y) == RoundTo(y, 100)

RECURSIVE SelectSeq2(_, _)
\* [w for w in words if fitz.Rect(w[:4]).intersects(rect)]
SelectSeq2(words, rect) ==
    IF words = <<>> THEN <<>>
    ELSE IF Intersects(RectOf(Head(words)), rect)
         THEN <<Head(words)>> \o SelectSeq2(Tail(words), rect)
         ELSE SelectSeq2(Tail(words), rect)

RECURSIVE InsertSorted(_, _)
\* the keyed element e put into the sorted sequence seq after every
\* element whose keys are not greater than its own
InsertSorted(seq, e) ==
    IF seq = <<>> THEN <<e>>
    ELSE LET last == seq[Len(seq)]
         IN  IF last[1] < e[1] \/ (last[1] = e[1] /\ last[2] <= e[2])
             THEN Append(seq, e)
             ELSE Append(InsertSorted(SubSeq(seq, 1, Len(seq) - 1), e), last)

RECURSIVE SortKeyed(_, _)
SortKeyed(keyed, n) ==
    IF n = 0 THEN <<>> ELSE InsertSorted(SortKeyed(keyed, n - 1), keyed[n])

\* list.sort and sorted by a pair of integer keys, keyed[i] being
\* <<key, key, element>>: stable, elements with equal keys keep the order
\* they came in
StableSort(keyed) ==
    LET sorted == SortKeyed(keyed, Len(keyed))
    IN  [i \in DOMAIN keyed |-> sorted[i][3]]

\* line 79: selected.sort(key=lambda w: (round(w[1], 2), w[0]))
SortTopLeft(selected) ==
    StableSort([i \in DOMAIN selected |->
                   <<Round2(selected[i].y0), selected[i].x0, selected[i]>>])

\* the row left in the order of the list
SortLeft_AsListed(row) == row

\* line 89: sorted(lines_map[y], key=lambda x: x[0])
SortLeft(row) ==
    StableSort([i \in DOMAIN row |-> <<row[i].x0, 0, row[i]>>])

RECURSIVE JoinTexts(_)
\* " ".join(t[4] for t in row_words)
JoinTexts(row) ==
    IF row = <<>> THEN ""
    ELSE IF Len(row) = 1 THEN row[1].text
    ELSE row[1].text \o " " \o JoinTexts(Tail(row))

RECURSIVE RowOf(_, _)
\* lines_map[y]: the selected words of key y, in the order of the list
RowOf(selected, y) ==
    IF selected = <<>> THEN <<>>
    ELSE IF Round1(Head(selected).y0) = y
         THEN <<Head(selected)>> \o RowOf(Tail(selected), y)
         ELSE RowOf(Tail(selected), y)

RECURSIVE LinesFrom(_, _)
\* lines 87-92 over the keys above floor, in ascending order
LinesFrom(selected, keys) ==
    IF keys = {} THEN <<>>
    ELSE LET y == CHOOSE k \in keys : \A m \in keys : k <= m
             row == RowOf(selected, y)
             row_words == SortLeft(row)
             line_text == Strip(JoinTexts(row_words))
         IN  (IF line_text # "" THEN <<line_text>> ELSE <<>>)
             \o LinesFrom(selected, keys \ {y})

extract_text_in_rect(page, rect) ==
    LET selected == SortTopLeft(SelectSeq2(page.words, rect))
    IN  LinesFrom(selected, {Round1(selected[i].y0) : i \in DOMAIN selected})

-----------------------------------------------------------------------------
(* The field parsers of the customs reference, consignee and total cages.  *)

LetterSet == UpperSet \cup LowerSet

IsDigitAt(s, i) == i >= 1 /\ i <= Len(s) /\ Ch(s, i) \in Digits

\* \d{2}/\d{2}/\d{4} at position i
DateAt(s, i) ==
    /\ i + 9 <= Len(s)
    /\ \A k \in {0, 1, 3, 4, 6, 7, 8, 9} : IsDigitAt(s, i + k)
    /\ Ch(s, i + 2) = "/"
    /\ Ch(s, i + 5) = "/"

\* the pattern anchored at position i, the year read from group 3, the
\* whole date, instead of group 4
InvoiceMatchAt_DateAsYear(s, i) ==
    IF ~(i <= Len(s) /\ Ch(s, i) \in UpperSet) THEN NoMatch
    ELSE LET p1 == SkipClass(s, i + 1, Spaces)
             p2 == SkipClass(s, p1, Digits)
             p3 == SkipClass(s, p2, Spaces)
         IN  IF p1 > i + 1 /\ p2 > p1 /\ p3 > p2 /\ DateAt(s, p3)
             THEN [found |-> TRUE, prefix |-> Ch(s, i),
                   number |-> SubSeq(s, p1, p2 - 1),
                   year |-> SubSeq(s, p3, p3 + 9)]
             ELSE NoMatch

\* ([A-Z])\s+(\d+)\s+(\d{2}/\d{2}/(\d{4})) anchored at position i
InvoiceMatchAt(s, i) ==
    IF ~(i <= Len(s) /\ Ch(s, i) \in UpperSet) THEN NoMatch
    ELSE LET p1 == SkipClass(s, i + 1, Spaces)
             p2 == SkipClass(s, p1, Digits)
             p3 == SkipClass(s, p2, Spaces)
         IN  IF p1 > i + 1 /\ p2 > p1 /\ p3 > p2 /\ DateAt(s, p3)
             THEN [found |-> TRUE, prefix |-> Ch(s, i),
                   number |-> SubSeq(s, p1, p2 - 1),
                   year |-> SubSeq(s, p3 + 6, p3 + 9)]
             ELSE NoMatch

\* re.search: the leftmost position at or after i where the pattern matches
InvoiceSearch(s, i) ==
    LET hits == {k \in i..Len(s) : InvoiceMatchAt(s, k).found}
    IN  IF hits = {} THEN NoMatch ELSE InvoiceMatchAt(s, Least(hits))

\* .*?(\d{4}) from position j: the nearest four digits, no line break
\* being passed over; 0 when there are none
LazyYear(s, j) ==
    LET hits == {y \in j..Len(s) :
                    /\ \A k \in 0..3 : IsDigitAt(s, y + k)
                    /\ \A k \in j..(y - 1) : Ch(s, k) # "\n"}
    IN  IF hits = {} THEN 0 ELSE Least(hits)

RECURSIVE Invoice2Digits(_, _, _, _)
\* (\d{4,6})\s*.*?(\d{4}) with the number n digits long, the longest first
Invoice2Digits(s, i, p1, n) ==
    IF n < 4 THEN NoMatch
    ELSE LET q == SkipClass(s, p1 + n, Spaces)
             y == LazyYear(s, q)
         IN  IF y # 0
             THEN [found |-> TRUE, prefix |-> Ch(s, i),
                   number |-> SubSeq(s, p1, p1 + n - 1),
                   year |-> SubSeq(s, y, y + 3)]
             ELSE Invoice2Digits(s, i, p1, n - 1)

\* ([A-Z])\s*(\d{4,6})\s*.*?(\d{4}) anchored at position i
Invoice2MatchAt(s, i) ==
    IF ~(i <= Len(s) /\ Ch(s, i) \in UpperSet) THEN NoMatch
    ELSE LET p1 == SkipClass(s, i + 1, Spaces)
             run == SkipClass(s, p1, Digits) - p1
         IN  Invoice2Digits(s, i, p1, Min(run, 6))

\* re.search: the leftmost position at or after i where the pattern matches
Invoice2Search(s, i) ==
    LET hits == {k \in i..Len(s) : Invoice2MatchAt(s, k).found}
    IN  IF hits = {} THEN NoMatch ELSE Invoice2MatchAt(s, Least(hits))

extract_invoice_number_from_customs_ref(lines) ==
    LET full_text == Join(lines)
        match == InvoiceSearch(full_text, 1)
        match2 == Invoice2Search(full_text, 1)
    IN  IF match.found
        THEN [prefix |-> match.prefix, number |-> match.number, year |-> match.year]
        ELSE IF match2.found
        THEN [prefix |-> match2.prefix, number |-> match2.number, year |-> match2.year]
        ELSE [prefix |-> "", number |-> "", year |-> ""]

\* re.findall(date_pattern, full_text)[0], "" when nothing matches
DateSearch(s, i) ==
    LET hits == {k \in i..Len(s) : DateAt(s, k)}
    IN  IF hits = {} THEN "" ELSE SubSeq(s, Least(hits), Least(hits) + 9)

extract_invoice_date_from_customs_ref(lines) == DateSearch(Join(lines), 1)

\* ([A-Z]{3,4}\d{1,2}) anchored at position i, nothing asked of what follows
OfficeMatchAt_NoLetter(s, i) ==
    LET up == Min(SkipClass(s, i, UpperSet) - i, 4)
        dg == Min(SkipClass(s, i + up, Digits) - (i + up), 2)
        p == i + up + dg
    IN  IF up >= 3 /\ dg >= 1
        THEN [found |-> TRUE, code |-> SubSeq(s, i, p - 1)]
        ELSE NoMatch

\* ([A-Z]{3,4}\d{1,2})\s+[A-Za-z] anchored at position i
OfficeMatchAt(s, i) ==
    LET up == Min(SkipClass(s, i, UpperSet) - i, 4)
        dg == Min(SkipClass(s, i + up, Digits) - (i + up), 2)
        p == i + up + dg
        q == SkipClass(s, p, Spaces)
    IN  IF up >= 3 /\ dg >= 1 /\ q > p /\ q <= Len(s) /\ Ch(s, q) \in LetterSet
        THEN [found |-> TRUE, code |-> SubSeq(s, i, p - 1)]
        ELSE NoMatch

\* re.search: the leftmost position at or after i where the pattern matches
OfficeSearch(s, i) ==
    LET hits == {k \in i..Len(s) : OfficeMatchAt(s, k).found}
    IN  IF hits = {} THEN NoMatch ELSE OfficeMatchAt(s, Least(hits))

\* the parser returning nothing where the source returns its default
extract_office_code_NoDefault(lines) ==
    LET match == OfficeSearch(Join(lines), 1)
    IN  IF match.found THEN match.code ELSE ""

extract_office_code_from_customs_ref(lines) ==
    LET match == OfficeSearch(Join(lines), 1)
    IN  IF match.found THEN match.code ELSE "CBBI1"

\* ([\d,]+)\s*Total Declaration anchored at position i
GrossMatchAt(s, i) ==
    LET p == SkipClass(s, i, Digits \cup {","})
        q == SkipClass(s, p, Spaces)
    IN  IF p > i /\ StartsAt(s, "Total Declaration", q)
        THEN [found |-> TRUE, number |-> SubSeq(s, i, p - 1)]
        ELSE NoMatch

\* re.search: the leftmost position at or after i where the pattern matches
GrossSearch(s, i) ==
    LET hits == {k \in i..Len(s) : GrossMatchAt(s, k).found}
    IN  IF hits = {} THEN NoMatch ELSE GrossMatchAt(s, Least(hits))

RECURSIVE GrossFallback(_, _)
\* lines 243-254 from line i on
GrossFallback(lines, i) ==
    IF i > Len(lines) THEN 0
    ELSE LET numbers == IF i > 1 THEN FindNumbers(lines[i - 1]) ELSE <<>>
             r == IF Contains(Lower(lines[i]), "total declaration") /\ numbers # <<>>
                  THEN ToFloat(RemoveCommas(numbers[1]))
                  ELSE ValueError
         IN  IF r.ok THEN r.val ELSE GrossFallback(lines, i + 1)

\* the parser handing the captured token to float with its commas
extract_gross_value_KeepCommas(lines) ==
    LET match == GrossSearch(Join(lines), 1)
        r == IF match.found THEN ToFloat(match.number) ELSE ValueError
    IN  IF r.ok THEN r.val ELSE GrossFallback(lines, 1)

extract_gross_value_from_total_declaration(lines) ==
    LET match == GrossSearch(Join(lines), 1)
        r == IF match.found THEN ToFloat(RemoveCommas(match.number)) ELSE ValueError
    IN  IF r.ok THEN r.val ELSE GrossFallback(lines, 1)

\* company_mappings, in the order of the dict
CompanyMappings ==
    << <<"MAS CAPITAL PVT LTD", "MAS CAPITAL PVT LTD">>,
       <<"BODYLINE PVT LTD", "BODYLINE PVT LTD">>,
       <<"UNICHELA PVT LTD", "UNICHELA PVT LTD">>,
       <<"MAS CAPITAL", "MAS CAPITAL PVT LTD">>,
       <<"BODYLINE", "BODYLINE PVT LTD">>,
       <<"UNICHELA", "UNICHELA PVT LTD">> >>

RECURSIVE CompanyLookup(_, _)
CompanyLookup(full_text, i) ==
    IF i > Len(CompanyMappings) THEN ""
    ELSE IF Contains(full_text, CompanyMappings[i][1]) THEN CompanyMappings[i][2]
    ELSE CompanyLookup(full_text, i + 1)

RECURSIVE AfterConsignee(_, _)
\* lines 153-157 from line i on
AfterConsignee(lines, i) ==
    IF i > Len(lines) THEN ""
    ELSE IF Contains(Upper(lines[i]), "CONSIGNEE") /\ i + 1 <= Len(lines)
         THEN Strip(lines[i + 1])
    ELSE AfterConsignee(lines, i + 1)

\* the tiers of extract_company_name_from_consignee the other way round
extract_company_name_LineFirst(lines) ==
    LET next_line == AfterConsignee(lines, 1)
    IN  IF next_line # "" THEN next_line
        ELSE CompanyLookup(Upper(Join(lines)), 1)

extract_company_name_from_consignee(lines) ==
    LET known == CompanyLookup(Upper(Join(lines)), 1)
    IN  IF known # "" THEN known ELSE AfterConsignee(lines, 1)

-----------------------------------------------------------------------------
(* extract_label_cage_text and extract_vat_from_summary_of_taxes on an     *)
(* opened document: a sequence of pages, doc[pno] being pages[pno + 1].    *)

\* the cage of the label on page pno
CageOnPage(doc, pno, found, right_expand, down_expand) ==
    LET page == doc.pages[pno + 1]
        cage_rect == expand_rect(found.rect, page, right_expand, down_expand)
    IN  [none |-> FALSE, page |-> pno, label |-> found.text, rect |-> cage_rect,
         lines |-> extract_text_in_rect(page, cage_rect)]

RECURSIVE FirstCage_SkipEmpty(_, _, _, _, _)
\* the loop of lines 110-125 going on to the next page when the cage of
\* the label holds no line
FirstCage_SkipEmpty(doc, keywords, pnos, right_expand, down_expand) ==
    IF pnos = <<>> THEN None
    ELSE LET found == find_label_rect_on_page(doc.pages[Head(pnos) + 1], keywords)
             cage == CageOnPage(doc, Head(pnos), found, right_expand, down_expand)
         IN  IF found.none \/ cage.lines = <<>>
             THEN FirstCage_SkipEmpty(doc, keywords, Tail(pnos), right_expand,
                                      down_expand)
             ELSE cage

RECURSIVE FirstCage(_, _, _, _, _)
\* the loop of lines 110-125 over the page numbers of pnos, in their order
FirstCage(doc, keywords, pnos, right_expand, down_expand) ==
    IF pnos = <<>> THEN None
    ELSE LET found == find_label_rect_on_page(doc.pages[Head(pnos) + 1], keywords)
         IN  IF found.none
             THEN FirstCage(doc, keywords, Tail(pnos), right_expand, down_expand)
             ELSE CageOnPage(doc, Head(pnos), found, right_expand, down_expand)

\* page_no of a call that names no page
NoPage == -1

extract_label_cage_text(doc, keywords, page_no, right_expand, down_expand) ==
    LET pages_to_check == IF page_no # NoPage THEN <<page_no>>
                          ELSE [i \in 1..Len(doc.pages) |-> i - 1]
    IN  FirstCage(doc, keywords, pages_to_check, right_expand, down_expand)

\* lines 356-369 on one line of the summary cage: the amount when the line
\* makes the function return
\* SummaryLine taking the last token of the line
SummaryLine_LastNumber(line) ==
    LET numbers == FindNumbers(line)
    IN  IF Contains(Upper(line), "VAT") /\ numbers # <<>>
        THEN ToFloat(RemoveCommas(numbers[Len(numbers)]))
        ELSE ValueError

\* one line of the loop of line 356: a value when the function returns
SummaryLine(line) ==
    LET numbers == FindNumbers(line)
    IN  IF Contains(Upper(line), "VAT") /\ numbers # <<>>
        THEN ToFloat(RemoveCommas(numbers[1]))
        ELSE ValueError

RECURSIVE SummaryLines(_, _)
SummaryLines(lines, i) ==
    IF i > Len(lines) THEN ValueError
    ELSE LET r == SummaryLine(lines[i])
         IN  IF r.ok THEN r ELSE SummaryLines(lines, i + 1)

\* the loop of line 335 stopped after the first page
SummaryPages_FirstPageOnly(doc, page_num) ==
    IF page_num >= 1 \/ page_num >= Len(doc.pages) THEN 0
    ELSE LET summary_result ==
                 extract_label_cage_text(doc, {"Summary of Taxes"}, page_num,
                                         Pt(150), Pt(150))
             r == IF summary_result.none THEN ValueError
                  ELSE SummaryLines(summary_result.lines, 1)
         IN  IF r.ok THEN r.val ELSE 0

RECURSIVE SummaryPages(_, _)
\* the loop of line 335 from page page_num on
SummaryPages(doc, page_num) ==
    IF page_num >= Len(doc.pages) THEN 0
    ELSE LET summary_result ==
                 extract_label_cage_text(doc, {"Summary of Taxes"}, page_num,
                                         Pt(150), Pt(150))
             r == IF summary_result.none THEN ValueError
                  ELSE SummaryLines(summary_result.lines, 1)
         IN  IF r.ok THEN r.val ELSE SummaryPages(doc, page_num + 1)

extract_vat_from_summary_of_taxes(doc) == SummaryPages(doc, 0)

-----------------------------------------------------------------------------
(* Documents.  A file's content is the description of a CUSDEC: for each   *)
(* label group, how it is printed.  fitz.open lays the description out as  *)
(* pages of blocks and words.                                              *)

PageWidth == Pt(600)

PageHeight == Pt(800)

Word(x, y, text) ==
    [x0 |-> Pt(x), y0 |-> Pt(y), x1 |-> Pt(x + 5 * Len(text)), y1 |-> Pt(y + 10),
     text |-> text]

RECURSIVE LineOf(_, _, _)
\* the words of one printed line, left to right from x
LineOf(x, y, texts) ==
    IF texts = <<>> THEN <<>>
    ELSE <<Word(x, y, Head(texts))>>
         \o LineOf(x + 5 * Len(Head(texts)) + 3, y, Tail(texts))

RECURSIVE LinesOf(_, _, _)
\* printed lines one under the other, 12 points apart
LinesOf(x, y, rows) ==
    IF rows = <<>> THEN <<>>
    ELSE LineOf(x, y, Head(rows)) \o LinesOf(x, y + 12, Tail(rows))

RECURSIVE BlockText(_)
\* the text of a block: each of its lines followed by a line break
BlockText(rows) ==
    IF rows = <<>> THEN ""
    ELSE Join(Head(rows)) \o "\n" \o BlockText(Tail(rows))

\* a block: the box around its printed lines
Block(x, y, rows) ==
    LET ws == LinesOf(x, y, rows)
        right == CHOOSE m \in {ws[i].x1 : i \in DOMAIN ws} :
                     \A i \in DOMAIN ws : ws[i].x1 <= m
    IN  [x0 |-> Pt(x), y0 |-> Pt(y), x1 |-> right,
         y1 |-> Pt(y + 12 * Len(rows) - 2),
         text |-> BlockText(rows)]

NoGroup == [blocks |-> <<>>, words |-> <<>>]

\* a label printed as a block, its value lines printed under it
Group(x, y, label, value) ==
    [blocks |-> <<Block(x, y, <<label>>)>>,
     words |-> LinesOf(x, y, <<label>> \o value)]

\* a label squeezed against the right edge of the page: its cage, cut at
\* pageWidth - 5, lies left of it and holds no word
EdgeGroup(y, label) ==
    LET box == [x0 |-> Pt(596), y0 |-> Pt(y), x1 |-> Pt(599), y1 |-> Pt(y + 10)]
    IN  [blocks |-> <<box @@ [text |-> Join(label) \o "\n"]>>,
         words |-> [i \in DOMAIN label |-> box @@ [text |-> label[i]]]]

ConsigneeKinds == {"absent", "known", "unknown", "bare", "edge"}

ConsigneeGroup(kind) ==
    CASE kind = "absent"  -> NoGroup
      [] kind = "known"   -> Group(20, 100, <<"Consignee">>, <<<<"Bodyline", "Pvt", "Ltd">>>>)
      [] kind = "unknown" -> Group(20, 100, <<"Consignee">>, <<<<"Acme", "Ltd">>>>)
      [] kind = "bare"    -> Group(20, 100, <<"Consignee">>, <<>>)
      [] kind = "edge"    -> EdgeGroup(100, <<"Consignee">>)

CustomsKinds == {"absent", "full", "dateonly", "twodates", "edge"}

CustomsLabel == <<"Customs", "Reference", "Number">>

CustomsGroup(kind) ==
    CASE kind = "absent"   -> NoGroup
      [] kind = "full"     -> Group(300, 200, CustomsLabel,
                                    <<<<"S", "52194", "30/09/2025">>, <<"CBBI2", "Colombo">>>>)
      [] kind = "dateonly" -> Group(300, 200, CustomsLabel, <<<<"30/09/2025">>>>)
      [] kind = "twodates" -> Group(300, 200, CustomsLabel,
                                    <<<<"01/02/2024">>, <<"S", "52194", "30/09/2025">>>>)
      [] kind = "edge"     -> EdgeGroup(200, CustomsLabel)

TotalKinds == {"absent", "ok", "zero", "edge"}

\* the amount is printed over the label, in the label's block
TotalGroup(kind) ==
    CASE kind = "absent" -> NoGroup
      [] kind = "ok"     -> [blocks |-> <<Block(20, 300, <<<<"499,180">>, <<"Total", "Declaration">>>>)>>,
                             words |-> LinesOf(20, 300, <<<<"499,180">>, <<"Total", "Declaration">>>>)]
      [] kind = "zero"   -> [blocks |-> <<Block(20, 300, <<<<"0">>, <<"Total", "Declaration">>>>)>>,
                             words |-> LinesOf(20, 300, <<<<"0">>, <<"Total", "Declaration">>>>)]
      [] kind = "edge"   -> EdgeGroup(300, <<"Total", "Declaration">>)
      [] kind = "vatonly" -> [blocks |-> <<Block(20, 300, <<<<"314,821">>, <<"Total", "Declaration">>>>)>>,
                              words |-> LinesOf(20, 300, <<<<"314,821">>, <<"Total", "Declaration">>>>)]

SummaryKinds ==
    {"absent", "vat", "vatzero", "edge", "page2", "edgepage2", "zeropage2"}

SummaryLabel == <<"Summary", "of", "Taxes">>

SummaryGroup(kind) ==
    CASE kind = "absent"  -> NoGroup
      [] kind = "vat"     -> Group(20, 400, SummaryLabel, <<<<"CID", "2,000">>, <<"VAT", "314,821">>>>)
      [] kind = "vatzero" -> Group(20, 400, SummaryLabel, <<<<"VAT", "0">>>>)
      [] kind = "edge"    -> EdgeGroup(400, SummaryLabel)
      [] kind = "page2"   -> NoGroup
      [] kind = "edgepage2" -> EdgeGroup(400, SummaryLabel)
      [] kind = "zeropage2" -> Group(20, 400, SummaryLabel, <<<<"VAT", "0">>>>)

TaxKinds == {"absent", "flag1", "flag0", "edge"}

TaxLabel == <<"Type", "Tax", "Base", "Rate", "Amount", "MP">>

TaxGroup(kind) ==
    CASE kind = "absent" -> NoGroup
      [] kind = "flag1"  -> Group(20, 600, TaxLabel, <<<<"VAT", "1,000", "18.00", "180", "1">>>>)
      [] kind = "flag0"  -> Group(20, 600, TaxLabel, <<<<"VAT", "1,000", "18.00", "180", "0">>>>)
      [] kind = "edge"   -> EdgeGroup(600, TaxLabel)

PageOf(groups) ==
    LET RECURSIVE Cat(_, _)
        Cat(gs, field) == IF gs = <<>> THEN <<>>
                          ELSE Head(gs)[field] \o Cat(Tail(gs), field)
    IN  [width |-> PageWidth, height |-> PageHeight,
         blocks |-> Cat(groups, "blocks"), words |-> Cat(groups, "words")]

\* the descriptions of the documents that open
Contents ==
    [valid : {TRUE}, con : ConsigneeKinds, cus : CustomsKinds, tot : TotalKinds,
     sum : SummaryKinds, tax : TaxKinds]

\* a file that is no PDF
Garbage ==
    [valid |-> FALSE, con |-> "absent", cus |-> "absent", tot |-> "absent",
     sum |-> "absent", tax |-> "absent"]

\* the document fitz.open makes of a content that opens
Document(c) ==
    [pages |->
        <<PageOf(<<ConsigneeGroup(c.con), CustomsGroup(c.cus), TotalGroup(c.tot),
                   SummaryGroup(c.sum), TaxGroup(c.tax)>>)>>
        \o (IF c.sum \in {"page2", "edgepage2", "zeropage2"}
            THEN <<PageOf(<<Group(20, 100, SummaryLabel, <<<<"VAT", "9,000">>>>)>>)>>
            ELSE <<>>)]

-----------------------------------------------------------------------------
(* process_cusdec_pdf, one action per step, and the WC tab that calls it.  *)

Sessions == {"s1", "s2"}

\* the names tempfile.NamedTemporaryFile may pick
TmpPaths == {"tmp1.pdf", "tmp2.pdf"}

\* the frame of a session that is not in a call
IdleFrame ==
    [pc |-> "idle", file |-> <<>>, caller |-> "", tmp_path |-> "",
     extracted_data |-> <<>>, locals |-> <<>>, log |-> <<>>,
     error |-> FALSE, raised |-> FALSE]

\* a session nobody has opened
OffFrame == [IdleFrame EXCEPT !.pc = "off"]

\* lines 14-25 and 980-992: the session state of a fresh session, with the
\* widgets of the two tabs and the position of the PayReq script run
\* (run_i = 0: no run is going on)
FreshSessionState ==
    [extracted_data |-> <<>>, cusdec_file |-> <<>>, last_processed_file |-> <<>>,
     auto_process |-> TRUE, wc_cusdec_file |-> <<>>,
     payreq_invoice_data |-> <<>>, processed |-> {}, payreq_cusdec_files |-> <<>>,
     uploaded_cusdecs |-> <<>>, clicked |-> "none", run_i |-> 0]

\* an upload: st.file_uploader's UploadedFile
File(name, size, content) == [name |-> name, size |-> size, content |-> content]

\* line 648: f"{cusdec_file.name}_{cusdec_file.size}"
FileId(f) == <<f.name, f.size>>

\* extracted_data[key] = value
Put(data, key, value) == (key :> value) @@ data

\* the frame a call of process_cusdec_pdf starts with, the previous call's
\* mapping being kept instead of a fresh one
NewFrame_KeepData(old, file, caller) ==
    [IdleFrame EXCEPT !.pc = "tmpfile", !.file = file, !.caller = caller,
                      !.extracted_data = old.extracted_data]

\* line 398: the frame a call of process_cusdec_pdf starts with
NewFrame(old, file, caller) ==
    [IdleFrame EXCEPT !.pc = "tmpfile", !.file = file, !.caller = caller]

\* fitz.open(tmp_path) succeeds: the file is there and is a PDF
CanOpen(path) == path \in DOMAIN tmpfiles /\ tmpfiles[path].valid

Open(path) == Document(tmpfiles[path])

\* an exception raised in the try block leaves the function
OnException_Propagate(f) == [f EXCEPT !.pc = "finally", !.raised = TRUE]

\* lines 490-491: an exception raised in the try block is shown, not raised
OnException(f) == [f EXCEPT !.pc = "finally", !.error = TRUE]

\* the step is entered
Logged(f, step) == [f EXCEPT !.log = Append(@, step)]

\* name = value, a local variable of the call
Bind(f, name, value) == [f EXCEPT !.locals = (name :> value) @@ @]

\* lines 414-418
ConsigneeFields(f, result) ==
    LET company_name == extract_company_name_from_consignee(result.lines)
        g == Bind(f, "consignee_result", result)
    IN  IF ~result.none /\ company_name # ""
        THEN [g EXCEPT !.extracted_data = Put(@, "company_name", company_name)]
        ELSE g

\* lines 428-446 with the date looked for only once the invoice number is found
CustomsFields_DateUnderInvoice(f, result) ==
    LET office_code == extract_office_code_from_customs_ref(result.lines)
        invoice_data == extract_invoice_number_from_customs_ref(result.lines)
        invoice_date_str == extract_invoice_date_from_customs_ref(result.lines)
        d0 == f.extracted_data
        d1 == IF office_code # "" THEN Put(d0, "office_code", office_code) ELSE d0
        d2 == Put(Put(Put(d1, "invoice_prefix", invoice_data.prefix),
                      "invoice_number", invoice_data.number),
                  "invoice_year", invoice_data.year)
        d3 == IF invoice_date_str # "" THEN Put(d2, "invoice_date", invoice_date_str)
              ELSE d2
        g == Bind(f, "customs_ref_result", result)
    IN  IF result.none THEN g
        ELSE IF invoice_data.prefix # "" /\ invoice_data.number # ""
                /\ invoice_data.year # ""
        THEN [g EXCEPT !.extracted_data = d3]
        ELSE [g EXCEPT !.extracted_data = d1]

\* lines 428-446 with invoice_year left out of the mapping
CustomsFields_NoYear(f, result) ==
    LET office_code == extract_office_code_from_customs_ref(result.lines)
        invoice_data == extract_invoice_number_from_customs_ref(result.lines)
        invoice_date_str == extract_invoice_date_from_customs_ref(result.lines)
        d0 == f.extracted_data
        d1 == IF office_code # "" THEN Put(d0, "office_code", office_code) ELSE d0
        d2 == IF invoice_data.prefix # "" /\ invoice_data.number # ""
              THEN Put(Put(d1, "invoice_prefix", invoice_data.prefix),
                       "invoice_number", invoice_data.number)
              ELSE d1
        d3 == IF invoice_date_str # "" THEN Put(d2, "invoice_date", invoice_date_str)
              ELSE d2
        g == Bind(f, "customs_ref_result", result)
    IN  IF result.none THEN g ELSE [g EXCEPT !.extracted_data = d3]

\* lines 428-446
CustomsFields(f, result) ==
    LET office_code == extract_office_code_from_customs_ref(result.lines)
        invoice_data == extract_invoice_number_from_customs_ref(result.lines)
        invoice_date_str == extract_invoice_date_from_customs_ref(result.lines)
        d0 == f.extracted_data
        d1 == IF office_code # "" THEN Put(d0, "office_code", office_code) ELSE d0
        d2 == IF invoice_data.prefix # "" /\ invoice_data.number # ""
                 /\ invoice_data.year # ""
              THEN Put(Put(Put(d1, "invoice_prefix", invoice_data.prefix),
                           "invoice_number", invoice_data.number),
                       "invoice_year", invoice_data.year)
              ELSE d1
        d3 == IF invoice_date_str # "" THEN Put(d2, "invoice_date", invoice_date_str)
              ELSE d2
        g == Bind(f, "customs_ref_result", result)
    IN  IF result.none THEN g ELSE [g EXCEPT !.extracted_data = d3]

\* lines 456-460 with a gross value of 0 stored too
TotalFields_StoreZero(f, result) ==
    LET gross_value == extract_gross_value_from_total_declaration(result.lines)
        g == Bind(f, "total_declaration_result", result)
    IN  IF ~result.none /\ gross_value >= 0
        THEN [g EXCEPT !.extracted_data = Put(@, "gross_value", gross_value)]
        ELSE g

\* lines 456-460
TotalFields(f, result) ==
    LET gross_value == extract_gross_value_from_total_declaration(result.lines)
        g == Bind(f, "total_declaration_result", result)
    IN  IF ~result.none /\ gross_value > 0
        THEN [g EXCEPT !.extracted_data = Put(@, "gross_value", gross_value)]
        ELSE g

\* lines 463-468 with the else branch taken whatever the summary yields
SummaryFields_AlwaysFallBack(f, vat_amount) ==
    LET g == Bind(f, "vat_amount", vat_amount)
    IN  IF vat_amount > 0
        THEN [g EXCEPT !.extracted_data = Put(@, "vat_amount", vat_amount),
                       !.pc = "taxtable"]
        ELSE [g EXCEPT !.pc = "taxtable"]

\* lines 463-468
SummaryFields(f, vat_amount) ==
    LET g == Bind(f, "vat_amount", vat_amount)
    IN  IF vat_amount > 0
        THEN [g EXCEPT !.extracted_data = Put(@, "vat_amount", vat_amount),
                       !.pc = "finally"]
        ELSE [g EXCEPT !.pc = "taxtable"]

\* lines 477-481
TaxTableFields(f, result) ==
    LET vat_amount == extract_vat_amount_from_tax_table(result.lines)
        g == Bind(f, "tax_table_result", result)
        h == Bind(g, "vat_amount", vat_amount)
    IN  IF result.none THEN g
        ELSE IF vat_amount > 0
        THEN [h EXCEPT !.extracted_data = Put(@, "vat_amount", vat_amount)]
        ELSE h

\* lines 643-655: a rerun of the script with cusdec_file in the WC uploader
\* and the auto-process box ticked calls process_cusdec_pdf when the file
\* is not the one processed last
WcStartExtract(s, cusdec_file) ==
    /\ frames[s].pc = "idle"
    /\ cusdec_file \in library
    /\ session_state[s].last_processed_file # FileId(cusdec_file)
    /\ session_state[s].auto_process
    /\ frames' = [frames EXCEPT ![s] = NewFrame(@, cusdec_file, "wc")]
    /\ UNCHANGED <<unit_vars, library, tmpfiles, session_state, returned>>

\* lines 401-403 with one fixed name for the temporary file of every call
SaveUpload_FixedPath(s) ==
    /\ frames[s].pc = "tmpfile"
    /\ tmpfiles' = ("tmp1.pdf" :> frames[s].file.content) @@ tmpfiles
    /\ frames' = [frames EXCEPT ![s].tmp_path = "tmp1.pdf", ![s].pc = "consignee"]
    /\ UNCHANGED <<unit_vars, library, session_state, returned>>

\* lines 401-403
SaveUpload(s) ==
    /\ frames[s].pc = "tmpfile"
    /\ \E path \in TmpPaths \ DOMAIN tmpfiles :
          /\ tmpfiles' = (path :> frames[s].file.content) @@ tmpfiles
          /\ frames' = [frames EXCEPT ![s].tmp_path = path, ![s].pc = "consignee"]
    /\ UNCHANGED <<unit_vars, library, session_state, returned>>

\* lines 407-418
ConsigneeStep(s) ==
    /\ frames[s].pc = "consignee"
    /\ frames' = [frames EXCEPT ![s] =
          IF ~CanOpen(@.tmp_path) THEN OnException(@)
          ELSE [ConsigneeFields(Logged(@, "consignee"),
                    extract_label_cage_text(Open(@.tmp_path), {"Consignee"},
                                            NoPage, Pt(80), Pt(50)))
                EXCEPT !.pc = "customs"]]
    /\ UNCHANGED <<unit_vars, library, tmpfiles, session_state, returned>>

\* lines 421-446
CustomsStep(s) ==
    /\ frames[s].pc = "customs"
    /\ frames' = [frames EXCEPT ![s] =
          IF ~CanOpen(@.tmp_path) THEN OnException(@)
          ELSE [CustomsFields(Logged(@, "customs"),
                    extract_label_cage_text(Open(@.tmp_path),
                                            {"Customs Reference Number"},
                                            NoPage, Pt(150), Pt(50)))
                EXCEPT !.pc = "total"]]
    /\ UNCHANGED <<unit_vars, library, tmpfiles, session_state, returned>>

\* lines 449-460
TotalStep(s) ==
    /\ frames[s].pc = "total"
    /\ frames' = [frames EXCEPT ![s] =
          IF ~CanOpen(@.tmp_path) THEN OnException(@)
          ELSE [TotalFields(Logged(@, "total"),
                    extract_label_cage_text(Open(@.tmp_path), {"Total Declaration"},
                                            NoPage, Pt(100), Pt(50)))
                EXCEPT !.pc = "summary"]]
    /\ UNCHANGED <<unit_vars, library, tmpfiles, session_state, returned>>

\* lines 463-468
SummaryStep(s) ==
    /\ frames[s].pc = "summary"
    /\ frames' = [frames EXCEPT ![s] =
          IF ~CanOpen(@.tmp_path) THEN OnException(@)
          ELSE SummaryFields(Logged(@, "summary"),
                             extract_vat_from_summary_of_taxes(Open(@.tmp_path)))]
    /\ UNCHANGED <<unit_vars, library, tmpfiles, session_state, returned>>

\* lines 470-481
TaxTableStep(s) ==
    /\ frames[s].pc = "taxtable"
    /\ frames' = [frames EXCEPT ![s] =
          IF ~CanOpen(@.tmp_path) THEN OnException(@)
          ELSE [TaxTableFields(Logged(@, "taxtable"),
                    extract_label_cage_text(Open(@.tmp_path),
                                            {"Amount", "Rate", "Tax Base"},
                                            NoPage, Pt(200), Pt(100)))
                EXCEPT !.pc = "finally"]]
    /\ UNCHANGED <<unit_vars, library, tmpfiles, session_state, returned>>

\* lines 492-495
FinallyStep(s) ==
    /\ frames[s].pc = "finally"
    /\ tmpfiles' = [p \in DOMAIN tmpfiles \ {frames[s].tmp_path} |-> tmpfiles[p]]
    /\ frames' = [frames EXCEPT ![s].pc = "return"]
    /\ UNCHANGED <<unit_vars, library, session_state, returned>>

\* lines 655-662 with the file's id left as it was
WcStoreExtract_KeepId(s) ==
    /\ frames[s].pc = "return"
    /\ frames[s].caller = "wc"
    /\ session_state' =
          IF frames[s].raised THEN session_state
          ELSE [session_state EXCEPT
                   ![s].extracted_data = frames[s].extracted_data,
                   ![s].cusdec_file = frames[s].file]
    /\ returned' =
          IF frames[s].raised \/ frames[s].file \in DOMAIN returned THEN returned
          ELSE (frames[s].file :> frames[s].extracted_data) @@ returned
    /\ frames' = [frames EXCEPT ![s] = [@ EXCEPT !.pc = "idle"]]
    /\ UNCHANGED <<unit_vars, library, tmpfiles>>

\* line 497 and lines 655-662: the mapping is returned and the WC tab
\* stores it with the file and the file's id; an exception that left
\* process_cusdec_pdf would end the script run before anything is stored
WcStoreExtract(s) ==
    /\ frames[s].pc = "return"
    /\ frames[s].caller = "wc"
    /\ session_state' =
          IF frames[s].raised THEN session_state
          ELSE [session_state EXCEPT
                   ![s].extracted_data = frames[s].extracted_data,
                   ![s].cusdec_file = frames[s].file,
                   ![s].last_processed_file = FileId(frames[s].file)]
    /\ returned' =
          IF frames[s].raised \/ frames[s].file \in DOMAIN returned THEN returned
          ELSE (frames[s].file :> frames[s].extracted_data) @@ returned
    /\ frames' = [frames EXCEPT ![s] = [@ EXCEPT !.pc = "idle"]]
    /\ UNCHANGED <<unit_vars, library, tmpfiles>>

Step(s) ==
    \/ \E f \in library : WcStartExtract(s, f)
    \/ SaveUpload(s)
    \/ ConsigneeStep(s)
    \/ CustomsStep(s)
    \/ TotalStep(s)
    \/ SummaryStep(s)
    \/ TaxTableStep(s)
    \/ FinallyStep(s)
    \/ WcStoreExtract(s)

Next == \E s \in Sessions : Step(s)

\* no unit is under call
NoUnit == upc = "none" /\ args = <<>> /\ ret = <<>>

\* one session is open, nothing has been uploaded yet
OneSession ==
    /\ frames = [s \in Sessions |-> IF s = "s1" THEN IdleFrame ELSE OffFrame]
    /\ tmpfiles = <<>>
    /\ session_state = [s \in Sessions |-> FreshSessionState]
    /\ returned = <<>>

\* one CUSDEC at hand, of any content
Init ==
    /\ NoUnit
    /\ library \in {{File("cusdec.pdf", 1, c)} : c \in Contents \cup {Garbage}}
    /\ OneSession

Spec == Init /\ [][Next]_vars

\* two CUSDECs at hand that print different fields
TwoFiles ==
    {File("a.pdf", 1, [valid |-> TRUE, con |-> "absent", cus |-> "full", tot |-> "ok",
                       sum |-> "vat", tax |-> "absent"]),
     File("b.pdf", 2, [valid |-> TRUE, con |-> "known", cus |-> "absent",
                       tot |-> "absent", sum |-> "absent", tax |-> "flag1"])}

\* two sessions are open, each uploading either file again and again
InitSession ==
    /\ NoUnit
    /\ library = TwoFiles
    /\ frames = [s \in Sessions |-> IdleFrame]
    /\ tmpfiles = <<>>
    /\ session_state = [s \in Sessions |-> FreshSessionState]
    /\ returned = <<>>

SpecSession == InitSession /\ [][Next]_vars

-----------------------------------------------------------------------------
(* The WC tab with its two widgets (lines 636-662): the uploader of one    *)
(* CUSDEC and the auto-process box.  Every change of a widget reruns the   *)
(* script with the widgets' new values.                                    *)

\* what the uploader can hold: nothing, or a file at hand
WcUploads == {<<>>} \cup library

\* lines 643-651 and 653: the script run calls process_cusdec_pdf
WcExtracts(state) ==
    /\ state.wc_cusdec_file # <<>>
    /\ state.last_processed_file # FileId(state.wc_cusdec_file)
    /\ state.auto_process

\* lines 639-655: a script run of the WC tab with cusdec_file in the
\* uploader and the box as auto_process, up to the call of
\* process_cusdec_pdf
WcRunExtract(s, cusdec_file, auto_process) ==
    LET state == [session_state[s] EXCEPT !.wc_cusdec_file = cusdec_file,
                                          !.auto_process = auto_process]
    IN  /\ frames[s].pc = "idle"
        /\ cusdec_file \in WcUploads
        /\ WcExtracts(state)
        /\ session_state' = [session_state EXCEPT ![s] = state]
        /\ frames' = [frames EXCEPT ![s] = NewFrame(@, cusdec_file, "wc")]
        /\ UNCHANGED <<unit_vars, library, tmpfiles, returned>>

\* lines 639-653: a script run of the WC tab that goes past the extraction:
\* no upload, the upload processed last, or the box not ticked
WcRunSkip(s, cusdec_file, auto_process) ==
    LET state == [session_state[s] EXCEPT !.wc_cusdec_file = cusdec_file,
                                          !.auto_process = auto_process]
    IN  /\ frames[s].pc = "idle"
        /\ cusdec_file \in WcUploads
        /\ ~WcExtracts(state)
        /\ session_state' = [session_state EXCEPT ![s] = state]
        /\ UNCHANGED <<unit_vars, library, tmpfiles, frames, returned>>

\* the positions of process_cusdec_pdf whose steps call st.success or
\* st.write (lines 348-365, 418, 432-446, 460, 467, 481-488)
ShowingSteps == {"consignee", "customs", "total", "summary", "taxtable"}

\* the user touches a widget while the extraction is going on: Streamlit
\* stops the script run at its next st call with an exception that
\* line 490 does not catch; lines 492-495 still run and nothing is stored
WcInterrupt(s) ==
    /\ frames[s].pc \in ShowingSteps
    /\ frames[s].caller = "wc"
    /\ frames' = [frames EXCEPT ![s] = [@ EXCEPT !.pc = "finally", !.raised = TRUE]]
    /\ UNCHANGED <<unit_vars, library, tmpfiles, session_state, returned>>

WcStep(s) ==
    \/ \E f \in WcUploads, b \in BOOLEAN : WcRunExtract(s, f, b)
    \/ \E f \in WcUploads, b \in BOOLEAN : WcRunSkip(s, f, b)
    \/ WcInterrupt(s)
    \/ SaveUpload(s)
    \/ ConsigneeStep(s)
    \/ CustomsStep(s)
    \/ TotalStep(s)
    \/ SummaryStep(s)
    \/ TaxTableStep(s)
    \/ FinallyStep(s)
    \/ WcStoreExtract(s)

NextWc == \E s \in Sessions : WcStep(s)

\* three CUSDECs at hand: two that print different fields and one of the
\* first one's name and size that prints other fields again
WcFiles ==
    TwoFiles \cup
    {File("a.pdf", 1, [valid |-> TRUE, con |-> "known", cus |-> "dateonly",
                       tot |-> "absent", sum |-> "absent", tax |-> "absent"]),
     File("c.pdf", 3, Garbage)}

InitWc ==
    /\ NoUnit
    /\ library = WcFiles
    /\ OneSession

SpecWc == InitWc /\ [][NextWc]_vars

-----------------------------------------------------------------------------
(* The PayReq tab (lines 994-1115): the uploader of several CUSDECs, the   *)
(* loop that extracts each file and fills a row of payreq_invoice_data,    *)
(* the data editor and its buttons.  A script run goes through the         *)
(* uploaded files one by one and then through the editor and the buttons;  *)
(* what the user did to start the run is held in clicked.                  *)

MaxUploads == 2

MaxRows == 2

\* datetime.now().strftime('%d/%m/%Y')
Today == "01/11/2026"

Columns ==
    {"INV. DATE", "Office Code", "Year", "Serial", "CUSDEC", "AMOUNT", "GL A/C",
     "F A", "CUSDEC_FILE"}

\* extracted_data.get(key, default)
Get(data, key, default) == IF key \in DOMAIN data THEN data[key] ELSE default

\* lines 1021-1040
NewRow(extracted_data, name) ==
    [c \in Columns |->
        CASE c = "INV. DATE"   -> Get(extracted_data, "invoice_date", Today)
          [] c = "Office Code" -> Get(extracted_data, "office_code", "CBBI1")
          [] c = "Year"        -> Get(extracted_data, "invoice_year", "2025")
          [] c = "Serial"      -> Get(extracted_data, "invoice_prefix", "S")
          [] c = "CUSDEC"      -> Get(extracted_data, "invoice_number", "")
          [] c = "AMOUNT"      -> Get(extracted_data, "vat_amount", 0)
          [] c = "GL A/C"      -> "17003030"
          [] c = "F A"         -> "Z016"
          [] c = "CUSDEC_FILE" -> name]

\* lines 1081-1091 and 1121-1131
ManualRow == NewRow(<<>>, "")

\* line 1019
Sufficient(extracted_data) ==
    {"company_name", "invoice_number", "gross_value", "vat_amount"}
        \cap DOMAIN extracted_data # {}

\* lines 1025-1029
Balanced(extracted_data) ==
    Get(extracted_data, "gross_value", 0) = Get(extracted_data, "vat_amount", 0)

\* lines 1016-1055 with the row added and the flag set whatever the gross
\* value is
AfterExtract_NoBalance(state, file, extracted_data) ==
    IF Sufficient(extracted_data)
    THEN [state EXCEPT
             !.payreq_invoice_data = Append(@, NewRow(extracted_data, file.name)),
             !.processed = @ \cup {file.name}]
    ELSE state

\* lines 1016-1055 with the flag set for every file that was extracted
AfterExtract_FlagAlways(state, file, extracted_data) ==
    IF Sufficient(extracted_data) /\ Balanced(extracted_data)
    THEN [state EXCEPT
             !.payreq_invoice_data = Append(@, NewRow(extracted_data, file.name)),
             !.processed = @ \cup {file.name}]
    ELSE [state EXCEPT !.processed = @ \cup {file.name}]

\* lines 1016-1055: what the mapping of file makes of the session state
AfterExtract(state, file, extracted_data) ==
    IF Sufficient(extracted_data) /\ Balanced(extracted_data)
    THEN [state EXCEPT
             !.payreq_invoice_data = Append(@, NewRow(extracted_data, file.name)),
             !.processed = @ \cup {file.name}]
    ELSE state

\* what the user may have in the uploader: files of the library, each once
Uploads ==
    {u \in SeqsUpTo(library, MaxUploads) :
        \A i, j \in DOMAIN u : u[i] = u[j] => i = j}

\* the sequence without its k-th element
Without(seq, k) == SubSeq(seq, 1, k - 1) \o SubSeq(seq, k + 1, Len(seq))

\* the user changes the uploader, presses a button or deletes a row in the
\* editor, and the script runs again from the top; lines 997-1006
PayReqRerun(s, files, clicked) ==
    /\ frames[s].pc = "idle"
    /\ session_state[s].run_i = 0
    /\ files \in Uploads
    /\ clicked \in {"none", "clear", "add", "start", "delete"}
    /\ files # session_state[s].uploaded_cusdecs => clicked = "none"
    /\ clicked \in {"clear", "add", "delete"} =>
          session_state[s].payreq_invoice_data # <<>>
    /\ clicked = "add" => Len(session_state[s].payreq_invoice_data) < MaxRows
    /\ clicked = "start" => session_state[s].payreq_invoice_data = <<>>
    /\ session_state' = [session_state EXCEPT
          ![s].uploaded_cusdecs = files,
          ![s].payreq_cusdec_files = IF files # <<>> THEN files ELSE @,
          ![s].clicked = clicked,
          ![s].run_i = 1]
    /\ UNCHANGED <<unit_vars, library, frames, tmpfiles, returned>>

\* line 1011: the file's flag is in the session state, the loop goes on
PayReqSkip(s) ==
    LET state == session_state[s]
    IN  /\ frames[s].pc = "idle"
        /\ state.run_i \in DOMAIN state.uploaded_cusdecs
        /\ state.uploaded_cusdecs[state.run_i].name \in state.processed
        /\ session_state' = [session_state EXCEPT ![s].run_i = @ + 1]
        /\ UNCHANGED <<unit_vars, library, frames, tmpfiles, returned>>

\* lines 1011-1015: the file has no flag, process_cusdec_pdf is called
PayReqStartExtract(s) ==
    LET state == session_state[s]
    IN  /\ frames[s].pc = "idle"
        /\ state.run_i \in DOMAIN state.uploaded_cusdecs
        /\ state.uploaded_cusdecs[state.run_i].name \notin state.processed
        /\ frames' = [frames EXCEPT
              ![s] = NewFrame(@, state.uploaded_cusdecs[state.run_i], "payreq")]
        /\ UNCHANGED <<unit_vars, library, tmpfiles, session_state, returned>>

\* line 497 and lines 1016-1055: the mapping is returned, the row is added
\* and the flag is set, or the file is rejected; an exception that left
\* process_cusdec_pdf would end the script run
PayReqStoreExtract(s) ==
    /\ frames[s].pc = "return"
    /\ frames[s].caller = "payreq"
    /\ session_state' = [session_state EXCEPT ![s] =
          IF frames[s].raised THEN [@ EXCEPT !.run_i = 0, !.clicked = "none"]
          ELSE [AfterExtract(@, frames[s].file, frames[s].extracted_data)
                EXCEPT !.run_i = @ + 1]]
    /\ frames' = [frames EXCEPT ![s] = IdleFrame]
    /\ UNCHANGED <<unit_vars, library, tmpfiles, returned>>

\* lines 1060-1131: the editor and the buttons, after the loop.  Clear All
\* Data, Add Manual Entry and Start with Manual Entry end with st.rerun().
PayReqEditor(s) ==
    LET state == session_state[s]
        data == state.payreq_invoice_data
    IN  /\ frames[s].pc = "idle"
        /\ state.run_i = Len(state.uploaded_cusdecs) + 1
        /\ \/ /\ data # <<>> /\ state.clicked = "clear"
              /\ session_state' = [session_state EXCEPT
                    ![s].payreq_invoice_data = <<>>, ![s].processed = {},
                    ![s].clicked = "none", ![s].run_i = 1]
           \/ /\ data # <<>> /\ state.clicked = "add"
              /\ session_state' = [session_state EXCEPT
                    ![s].payreq_invoice_data = Append(@, ManualRow),
                    ![s].clicked = "none", ![s].run_i = 1]
           \/ /\ data # <<>> /\ state.clicked = "delete"
              /\ \E k \in DOMAIN data :
                    session_state' = [session_state EXCEPT
                        ![s].payreq_invoice_data = Without(@, k),
                        ![s].clicked = "none", ![s].run_i = 0]
           \/ /\ data = <<>> /\ state.clicked = "start"
              /\ session_state' = [session_state EXCEPT
                    ![s].payreq_invoice_data = <<ManualRow>>,
                    ![s].clicked = "none", ![s].run_i = 1]
           \/ /\ \/ state.clicked = "none"
                 \/ data = <<>> /\ state.clicked # "start"
                 \/ data # <<>> /\ state.clicked = "start"
              /\ session_state' = [session_state EXCEPT
                    ![s].clicked = "none", ![s].run_i = 0]
        /\ UNCHANGED <<unit_vars, library, frames, tmpfiles, returned>>

PayReqStep(s) ==
    \/ \E files \in Uploads, clicked \in {"none", "clear", "add", "start", "delete"} :
          PayReqRerun(s, files, clicked)
    \/ PayReqSkip(s)
    \/ PayReqStartExtract(s)
    \/ SaveUpload(s)
    \/ ConsigneeStep(s)
    \/ CustomsStep(s)
    \/ TotalStep(s)
    \/ SummaryStep(s)
    \/ TaxTableStep(s)
    \/ FinallyStep(s)
    \/ PayReqStoreExtract(s)
    \/ PayReqEditor(s)

NextPayReq == \E s \in Sessions : PayReqStep(s)

\* three CUSDECs at hand: one whose total is its VAT, one that prints a
\* VAT and no total, and one of the first one's name that prints nothing
\* the tab asks for
PayReqFiles ==
    {File("a.pdf", 1, [valid |-> TRUE, con |-> "known", cus |-> "full",
                       tot |-> "vatonly", sum |-> "vat", tax |-> "absent"]),
     File("b.pdf", 2, [valid |-> TRUE, con |-> "known", cus |-> "full",
                       tot |-> "absent", sum |-> "vat", tax |-> "absent"]),
     File("a.pdf", 3, [valid |-> TRUE, con |-> "absent", cus |-> "edge",
                       tot |-> "absent", sum |-> "absent", tax |-> "absent"])}

InitPayReq ==
    /\ NoUnit
    /\ library = PayReqFiles
    /\ OneSession

SpecPayReq == InitPayReq /\ [][NextPayReq]_vars

\* the application is not running
NoApp ==
    /\ library = {}
    /\ frames = [s \in Sessions |-> OffFrame]
    /\ tmpfiles = <<>>
    /\ session_state = [s \in Sessions |-> FreshSessionState]
    /\ returned = <<>>

-----------------------------------------------------------------------------
(* Properties of process_cusdec_pdf.                                       *)

Keys ==
    {"company_name", "office_code", "invoice_prefix", "invoice_number",
     "invoice_year", "invoice_date", "gross_value", "vat_amount"}

\* the keys of the group of each located label
GroupKeys(result) ==
    CASE result = "consignee_result"         -> {"company_name"}
      [] result = "customs_ref_result"       -> {"office_code", "invoice_prefix",
                                                 "invoice_number", "invoice_year",
                                                 "invoice_date"}
      [] result = "total_declaration_result" -> {"gross_value"}
      [] result = "tax_table_result"         -> {"vat_amount"}

Results ==
    {"consignee_result", "customs_ref_result", "total_declaration_result",
     "tax_table_result"}

\* the document of content c prints, in the cage of its label, a value of key
Prints(c, key) ==
    CASE key = "company_name" -> c.con \in {"known", "unknown"}
      [] key = "office_code"  -> c.cus = "full"
      [] key \in {"invoice_prefix", "invoice_number", "invoice_year"} ->
             c.cus \in {"full", "twodates"}
      [] key = "invoice_date" -> c.cus \in {"full", "dateonly", "twodates"}
      [] key = "gross_value"  -> c.tot = "ok"
      [] key = "vat_amount"   -> c.sum \in {"vat", "page2", "edgepage2"} \/ c.tax = "flag1"

\* the summary of taxes of content c prints a VAT amount above 0
SummaryPrintsVat(c) == c.sum \in {"vat", "page2", "edgepage2"}

\* the call is over: it returns its mapping or passes an exception on
AtReturn(f) == f.pc = "return"

\* the steps of a call in which nothing is raised
StepsOf(c) ==
    <<"consignee", "customs", "total", "summary">>
    \o (IF SummaryPrintsVat(c) THEN <<>> ELSE <<"taxtable">>)

\* the cage of the Summary of Taxes label on the first page
SummaryCage(c) ==
    extract_label_cage_text(Document(c), {"Summary of Taxes"}, 0, Pt(150), Pt(150))

EmptySummaryCage(c) == ~SummaryCage(c).none /\ SummaryCage(c).lines = <<>>

Ran(f, step) == \E i \in DOMAIN f.log : f.log[i] = step

Position(f, step) == CHOOSE i \in DOMAIN f.log : f.log[i] = step

\* the cage of the label of result was computed and holds no word
EmptyCage(f, result) ==
    /\ result \in DOMAIN f.locals
    /\ ~f.locals[result].none
    /\ f.locals[result].lines = <<>>

\* C3: the summary tier runs before the tax-table tier; the tax-table tier
\* is entered only with a summary amount of 0; a summary amount above 0 is
\* recorded as vat_amount and the call goes on without the tax-table tier.
C3_SummaryTierFirst ==
    \A s \in Sessions :
        LET f == frames[s]
        IN  /\ Ran(f, "taxtable") =>
                  Ran(f, "summary") /\ Position(f, "summary") < Position(f, "taxtable")
            /\ f.pc = "taxtable" => Ran(f, "summary") /\ f.locals["vat_amount"] = 0
            /\ Ran(f, "summary") /\ f.pc # "taxtable" /\ ~Ran(f, "taxtable") =>
                  /\ f.locals["vat_amount"] > 0
                  /\ "vat_amount" \in DOMAIN f.extracted_data
                  /\ f.extracted_data["vat_amount"] = f.locals["vat_amount"]
                  /\ "tax_table_result" \notin DOMAIN f.locals
            /\ AtReturn(f) /\ f.file.content.valid =>
                  (Ran(f, "taxtable") <=> ~SummaryPrintsVat(f.file.content))

\* a call returned a summary amount and never entered the tax-table tier,
\* though the document prints a tax table with a VAT row of flag 1
C3_Witness ==
    \E s \in Sessions :
        /\ AtReturn(frames[s])
        /\ Ran(frames[s], "summary") /\ ~Ran(frames[s], "taxtable")
        /\ frames[s].file.content.tax = "flag1"
        /\ frames[s].extracted_data["vat_amount"] = 314821

\* what the first token of each VAT line of the summary cages of content c
\* is worth, page after page
SummaryAmounts(c) ==
    CASE c.sum = "vat"       -> <<314821>>
      [] c.sum = "vatzero"   -> <<0>>
      [] c.sum = "page2"     -> <<9000>>
      [] c.sum = "edgepage2" -> <<9000>>
      [] c.sum = "zeropage2" -> <<0, 9000>>
      [] OTHER               -> <<>>

\* the summary step of the call recorded amount and the tax table was left
\* alone
RecordedFromSummary(f, amount) ==
    /\ f.locals["vat_amount"] = amount
    /\ "vat_amount" \in DOMAIN f.extracted_data
    /\ f.extracted_data["vat_amount"] = amount
    /\ ~Ran(f, "taxtable") /\ f.pc # "taxtable"

\* C21 as stated: when some VAT line of a summary cage of the document has
\* a first token above 0, the summary step finds an amount above 0 and
\* records it as vat_amount, whatever comes before that line.
C21_AnyPositiveLineRecorded ==
    \A s \in Sessions :
        LET f == frames[s]
            amounts == SummaryAmounts(f.file.content)
        IN  (Ran(f, "summary") /\ f.file.content.valid
                /\ \E i \in DOMAIN amounts : amounts[i] > 0) =>
                \E i \in DOMAIN amounts :
                    amounts[i] > 0 /\ RecordedFromSummary(f, amounts[i])

\* C21 amended: when the first VAT line of the summary cages, in page
\* order, that has a first token has one above 0, the summary step finds
\* that amount and records it as vat_amount, whatever the pages before it
\* contain.
C21_FirstPositiveLineRecorded ==
    \A s \in Sessions :
        LET f == frames[s]
            amounts == SummaryAmounts(f.file.content)
        IN  (Ran(f, "summary") /\ f.file.content.valid
                /\ amounts # <<>> /\ amounts[1] > 0) =>
                RecordedFromSummary(f, amounts[1])

\* the amount of the second page is recorded, the first page having a
\* summary cage without a word and the tax table a VAT row of flag 1
C21_Witness ==
    \E s \in Sessions :
        /\ AtReturn(frames[s])
        /\ frames[s].file.content.sum = "edgepage2"
        /\ frames[s].file.content.tax = "flag1"
        /\ EmptySummaryCage(frames[s].file.content)
        /\ RecordedFromSummary(frames[s], 9000)

\* C23: whenever the mapping a call returns holds both invoice_year and
\* invoice_date, invoice_year is the year written in invoice_date.
C23_YearOfDate ==
    \A s \in Sessions :
        LET f == frames[s]
            d == f.extracted_data
        IN  (AtReturn(f) /\ {"invoice_year", "invoice_date"} \subseteq DOMAIN d) =>
                d["invoice_year"] = SubSeq(d["invoice_date"], 7, 10)

TripleKeys == {"invoice_prefix", "invoice_number", "invoice_year"}

\* C24: in every mapping a call returns, and in the mapping of a call at
\* every step, the keys invoice_prefix, invoice_number and invoice_year are
\* all three there, each with a value that is not empty, or none is.
C24_TripleAllOrNothing ==
    \A s \in Sessions :
        LET d == frames[s].extracted_data
        IN  \/ TripleKeys \cap DOMAIN d = {}
            \/ TripleKeys \subseteq DOMAIN d /\ \A k \in TripleKeys : d[k] # ""

\* a call returns the three keys of the triple, another returns the date
\* without them: here the first
C24_Witness ==
    \E s \in Sessions :
        /\ AtReturn(frames[s])
        /\ frames[s].file.content.cus = "full"
        /\ TripleKeys \subseteq DOMAIN frames[s].extracted_data
        /\ frames[s].extracted_data["invoice_prefix"] = "S"
        /\ frames[s].extracted_data["invoice_number"] = "52194"
        /\ frames[s].extracted_data["invoice_year"] = "2025"

\* C5 as stated: at the return of a call on a document that opens, the
\* keys of every label whose cage holds no word are absent from the mapping,
\* vat_amount is absent when the summary cage holds no word, nothing was
\* raised and every value printed in another cage is in the mapping.
C5_EmptyCageOmitsGroup ==
    \A s \in Sessions :
        LET f == frames[s]
            c == f.file.content
        IN  AtReturn(f) /\ c.valid =>
                /\ \A r \in Results :
                      EmptyCage(f, r) => GroupKeys(r) \cap DOMAIN f.extracted_data = {}
                /\ EmptySummaryCage(c) => "vat_amount" \notin DOMAIN f.extracted_data
                /\ ~f.error /\ ~f.raised
                /\ \A k \in Keys : Prints(c, k) => k \in DOMAIN f.extracted_data

\* C5, amended: as above, but with an empty Customs Reference Number cage
\* office_code is in the mapping with the value "CBBI1", and with an empty
\* summary cage vat_amount is in the mapping exactly when a later page's
\* summary or the tax table yields it.
C5_EmptyCageOmitsGroupButOfficeCode ==
    \A s \in Sessions :
        LET f == frames[s]
            c == f.file.content
        IN  AtReturn(f) /\ c.valid =>
                /\ \A r \in Results :
                      EmptyCage(f, r) =>
                          (GroupKeys(r) \ {"office_code"}) \cap DOMAIN f.extracted_data = {}
                /\ EmptyCage(f, "customs_ref_result") =>
                      /\ "office_code" \in DOMAIN f.extracted_data
                      /\ f.extracted_data["office_code"] = "CBBI1"
                /\ EmptySummaryCage(c) =>
                      ("vat_amount" \in DOMAIN f.extracted_data
                          <=> c.sum = "edgepage2" \/ c.tax = "flag1")
                /\ ~f.error /\ ~f.raised
                /\ \A k \in Keys : Prints(c, k) => k \in DOMAIN f.extracted_data

\* a call returns with the customs, total and summary cages empty and the
\* company name in its mapping
C5_Witness ==
    \E s \in Sessions :
        LET f == frames[s]
        IN  /\ AtReturn(f)
            /\ EmptyCage(f, "customs_ref_result")
            /\ EmptyCage(f, "total_declaration_result")
            /\ EmptyCage(f, "tax_table_result")
            /\ EmptySummaryCage(f.file.content)
            /\ DOMAIN f.extracted_data = {"company_name", "office_code"}

\* C6 as stated: a call on a file that does not open ends by raising to its
\* caller, and a call on a file that opens raises nothing.
C6_OpenFailurePropagates ==
    \A s \in Sessions :
        LET f == frames[s]
        IN  AtReturn(f) => (f.raised <=> ~f.file.content.valid)

\* C6, amended: a call on a file that does not open shows the error and
\* returns the empty mapping, no step having been entered; no call raises.
C6_OpenFailureReturnsEmpty ==
    \A s \in Sessions :
        LET f == frames[s]
        IN  /\ ~f.raised
            /\ AtReturn(f) =>
                  /\ f.error <=> ~f.file.content.valid
                  /\ f.error => f.extracted_data = <<>> /\ f.log = <<>>
                  /\ f.tmp_path \notin DOMAIN tmpfiles

\* the WC tab has stored the empty mapping of a file that does not open
C6_Witness ==
    \E s \in Sessions :
        /\ frames[s].pc = "idle"
        /\ frames[s].error
        /\ session_state[s].cusdec_file # <<>>
        /\ ~session_state[s].cusdec_file.content.valid
        /\ session_state[s].extracted_data = <<>>

\* C7 as stated: at the return of a call on a document that opens, a key is
\* in the mapping exactly when its value is printed in the cage of its
\* label, every step was entered (the tax table unless the summary gave the
\* amount) and nothing was raised.
C7_FieldsIndependent ==
    \A s \in Sessions :
        LET f == frames[s]
            c == f.file.content
        IN  AtReturn(f) /\ c.valid =>
                /\ \A k \in Keys : k \in DOMAIN f.extracted_data <=> Prints(c, k)
                /\ f.log = StepsOf(c)
                /\ ~f.error /\ ~f.raised

\* C7, amended: as above, but office_code is in the mapping exactly when
\* the Customs Reference Number label is located.
C7_FieldsIndependentButOfficeCode ==
    \A s \in Sessions :
        LET f == frames[s]
            c == f.file.content
        IN  AtReturn(f) /\ c.valid =>
                /\ \A k \in Keys \ {"office_code"} :
                      k \in DOMAIN f.extracted_data <=> Prints(c, k)
                /\ "office_code" \in DOMAIN f.extracted_data <=> c.cus # "absent"
                /\ f.log = StepsOf(c)
                /\ ~f.error /\ ~f.raised

\* a call returns the date and the VAT amount of a document that prints no
\* consignee, no invoice number and no total
C7_Witness ==
    \E s \in Sessions :
        LET f == frames[s]
            c == f.file.content
        IN  /\ AtReturn(f)
            /\ c.con = "absent" /\ c.cus = "dateonly" /\ c.tot = "absent"
            /\ c.sum = "absent" /\ c.tax = "flag1"
            /\ f.log = <<"consignee", "customs", "total", "summary", "taxtable">>
            /\ DOMAIN f.extracted_data = {"office_code", "invoice_date", "vat_amount"}

\* C10: a call on a file that a call has returned a mapping of before comes
\* to its return with the same keys and the same values, whatever the
\* sessions did in between.
C10_SameFileSameMapping ==
    \A s \in Sessions :
        LET f == frames[s]
        IN  AtReturn(f) /\ f.file \in DOMAIN returned =>
                f.extracted_data = returned[f.file]

\* a session comes to the return of a second call on a file, having
\* processed the other file since the first, while the other session is
\* inside a call
C10_Witness ==
    \E s \in Sessions, t \in Sessions :
        LET f == frames[s]
        IN  /\ AtReturn(f)
            /\ f.file \in DOMAIN returned
            /\ f.extracted_data # <<>>
            /\ session_state[s].last_processed_file \notin {<<>>, FileId(f.file)}
            /\ t # s
            /\ frames[t].pc \in {"customs", "total", "summary", "taxtable"}

TextKeys ==
    {"company_name", "office_code", "invoice_prefix", "invoice_number",
     "invoice_year", "invoice_date"}

AmountKeys == {"gross_value", "vat_amount"}

\* C11: at every step of a call the mapping holds only keys of the fixed
\* set, every text stored is a non-empty string and every gross_value or
\* vat_amount stored is greater than 0.
C11_KnownKeysNoPlaceholder ==
    \A s \in Sessions :
        LET d == frames[s].extracted_data
        IN  /\ DOMAIN d \subseteq TextKeys \cup AmountKeys
            /\ \A k \in DOMAIN d \cap TextKeys : d[k] # ""
            /\ \A k \in DOMAIN d \cap AmountKeys : d[k] > 0
            /\ DOMAIN session_state[s].extracted_data \subseteq TextKeys \cup AmountKeys

\* a call returns the six text keys and no amount of a document that
\* prints a total of 0, a summary VAT of 0 and a VAT row of flag 0
C11_Witness ==
    \E s \in Sessions :
        LET f == frames[s]
        IN  /\ AtReturn(f)
            /\ f.file.content.tot = "zero" /\ f.file.content.tax = "flag0"
            /\ f.file.content.sum = "vatzero"
            /\ f.file.content.con = "known" /\ f.file.content.cus = "full"
            /\ DOMAIN f.extracted_data = TextKeys

\* the mapping of a call on file that runs from its first step to its last
\* with nothing else going on
RunAlone(file) ==
    LET doc == Document(file.content)
        f1 == ConsigneeFields(IdleFrame,
                  extract_label_cage_text(doc, {"Consignee"}, NoPage, Pt(80), Pt(50)))
        f2 == CustomsFields(f1,
                  extract_label_cage_text(doc, {"Customs Reference Number"},
                                          NoPage, Pt(150), Pt(50)))
        f3 == TotalFields(f2,
                  extract_label_cage_text(doc, {"Total Declaration"},
                                          NoPage, Pt(100), Pt(50)))
        f4 == SummaryFields(f3, extract_vat_from_summary_of_taxes(doc))
        f5 == IF f4.pc # "taxtable" THEN f4
              ELSE TaxTableFields(f4,
                       extract_label_cage_text(doc, {"Amount", "Rate", "Tax Base"},
                                               NoPage, Pt(200), Pt(100)))
    IN  IF file.content.valid THEN f5.extracted_data ELSE <<>>

\* the call of the frame is between its first step and its finally block
InTry(f) ==
    f.pc \in {"consignee", "customs", "total", "summary", "taxtable", "finally"}

\* C15: whatever the interleaving of the calls of two sessions, each call
\* between its first step and its finally block has a temporary file of
\* its own that holds its document, and it leaves its try block with the
\* mapping it has when run alone, no error having been caught.
C15_CallsDoNotInterfere ==
    \A s \in Sessions :
        LET f == frames[s]
        IN  /\ InTry(f) =>
                  /\ f.tmp_path \in DOMAIN tmpfiles
                  /\ tmpfiles[f.tmp_path] = f.file.content
                  /\ \A t \in Sessions \ {s} :
                        InTry(frames[t]) => frames[t].tmp_path # f.tmp_path
            /\ f.pc \in {"finally", "return"} =>
                  ~f.error /\ ~f.raised /\ f.extracted_data = RunAlone(f.file)

\* a call leaves its try block while the call of the other session, on the
\* other document, is in the middle of its steps
C15_Witness ==
    \E s \in Sessions, t \in Sessions :
        /\ s # t
        /\ frames[s].pc = "finally"
        /\ frames[t].pc \in {"customs", "total", "summary"}
        /\ frames[s].file # frames[t].file
        /\ frames[s].log # <<>> /\ frames[t].log # <<>>
        /\ frames[s].extracted_data # <<>>
        /\ DOMAIN tmpfiles = TmpPaths

-----------------------------------------------------------------------------
(* Properties of the WC tab.                                               *)

\* the step starts an extraction for the WC tab
WcStarts(s) ==
    /\ frames[s].pc = "idle"
    /\ frames'[s].pc = "tmpfile"
    /\ frames'[s].caller = "wc"

\* the step changes one of the three entries the WC tab keeps of a CUSDEC
WcEntryChanges(s) ==
    \/ session_state'[s].extracted_data # session_state[s].extracted_data
    \/ session_state'[s].cusdec_file # session_state[s].cusdec_file
    \/ session_state'[s].last_processed_file # session_state[s].last_processed_file

\* extracted_data is what process_cusdec_pdf returned for cusdec_file, and
\* last_processed_file is that file's id; or nothing was extracted yet
WcBelongs(state) ==
    \/ /\ state.last_processed_file = <<>>
       /\ state.cusdec_file = <<>>
       /\ state.extracted_data = <<>>
    \/ /\ state.cusdec_file \in DOMAIN returned
       /\ state.extracted_data = returned[state.cusdec_file]
       /\ state.last_processed_file = FileId(state.cusdec_file)

-----------------------------------------------------------------------------
(* Properties of the PayReq tab.                                           *)

Names == {f.name : f \in library}

\* the step adds, at the end of the table of session s, a row of the file
\* name
RowAdded(s, name) ==
    LET old == session_state[s].payreq_invoice_data
        new == session_state'[s].payreq_invoice_data
    IN  /\ Len(new) = Len(old) + 1
        /\ SubSeq(new, 1, Len(old)) = old
        /\ new[Len(new)]["CUSDEC_FILE"] = name

\* the step sets the flag processed_<name> of session s
FlagSet(s, name) ==
    name \notin session_state[s].processed /\ name \in session_state'[s].processed

\* the step starts a call of process_cusdec_pdf for the PayReq tab
ExtractStarts(s) ==
    frames[s].pc = "idle" /\ frames'[s].pc = "tmpfile" /\ frames'[s].caller = "payreq"

\* C25: in every step of the PayReq tab a row of a file name is added
\* exactly when the flag of that name is set; flags go away only all at
\* once, together with all rows (Clear All Data); and no extraction starts
\* for a file whose flag is set.  So between two clearings a file name gets
\* one row at most.
C25_OneRowPerFlag ==
    [][\A s \in Sessions :
          /\ \A name \in Names : RowAdded(s, name) <=> FlagSet(s, name)
          /\ ~(session_state[s].processed \subseteq session_state'[s].processed) =>
                /\ session_state'[s].processed = {}
                /\ session_state'[s].payreq_invoice_data = <<>>
          /\ ExtractStarts(s) =>
                frames'[s].file.name \notin session_state[s].processed]_vars

\* after a manual row was added under the row of a.pdf, the script run has
\* gone past a.pdf, still in the uploader, without a second row
C25_Witness ==
    \E s \in Sessions :
        LET state == session_state[s]
        IN  /\ Len(state.uploaded_cusdecs) = 1
            /\ state.uploaded_cusdecs[1].name = "a.pdf"
            /\ state.run_i = 2
            /\ state.processed = {"a.pdf"}
            /\ Len(state.payreq_invoice_data) = 2
            /\ state.payreq_invoice_data[1]["CUSDEC_FILE"] = "a.pdf"
            /\ state.payreq_invoice_data[2] = ManualRow

\* C26: when process_cusdec_pdf returns to the PayReq tab, a row is added
\* only if the gross value and the VAT amount of the mapping are equal (0
\* standing for a missing key) and the mapping holds one of company_name,
\* invoice_number, gross_value, vat_amount; the row then has the file's
\* name and the VAT amount as AMOUNT; otherwise the table and the flags
\* stay as they are.
C26_RowOnlyForVatClaims ==
    [][\A s \in Sessions :
          (frames[s].pc = "return" /\ frames[s].caller = "payreq"
              /\ frames'[s].pc = "idle") =>
              LET d == frames[s].extracted_data
                  gross == IF "gross_value" \in DOMAIN d THEN d["gross_value"] ELSE 0
                  vat == IF "vat_amount" \in DOMAIN d THEN d["vat_amount"] ELSE 0
                  some == \E k \in {"company_name", "invoice_number",
                                    "gross_value", "vat_amount"} : k \in DOMAIN d
                  old == session_state[s].payreq_invoice_data
                  new == session_state'[s].payreq_invoice_data
              IN  IF gross = vat /\ some
                  THEN /\ RowAdded(s, frames[s].file.name)
                       /\ new[Len(new)]["AMOUNT"] = vat
                  ELSE /\ new = old
                       /\ session_state'[s].processed = session_state[s].processed]_vars

\* b.pdf, which prints a VAT and no total, was gone through without a row
\* and a.pdf, whose total is its VAT, got its row
C26_Witness ==
    \E s \in Sessions :
        LET state == session_state[s]
        IN  /\ Len(state.uploaded_cusdecs) = 2
            /\ state.uploaded_cusdecs[1].name = "b.pdf"
            /\ state.uploaded_cusdecs[2].name = "a.pdf"
            /\ state.uploaded_cusdecs[2].size = 1
            /\ state.run_i = 3
            /\ state.processed = {"a.pdf"}
            /\ Len(state.payreq_invoice_data) = 1
            /\ state.payreq_invoice_data[1]["CUSDEC_FILE"] = "a.pdf"
            /\ state.payreq_invoice_data[1]["AMOUNT"] = 314821

-----------------------------------------------------------------------------
(* Tax-table inputs: rows of the documented form and other lines.          *)

MaxLines == 2

VatAmounts == {<<"314,821", 314821>>, <<"31", 31>>, <<"1,100", 1100>>}

VatRow(tag, base, rate, amt, flag) ==
    [kind |-> "row",
     text |-> tag \o " " \o base \o " " \o rate \o " " \o amt[1] \o " " \o flag,
     amount |-> amt[2], flag |-> flag]

VatRows ==
    {VatRow("VAT", "1,749,003", "18.00", a, f) : a \in VatAmounts, f \in {"0", "1"}}
    \cup {VatRow("VTD", "20", "8", a, f) : a \in VatAmounts, f \in {"0", "1"}}

OtherLine(t) == [kind |-> "other", text |-> t, amount |-> 0, flag |-> ""]

VatOtherLines ==
    {OtherLine("Type Tax Base Rate Amount MP"),
     OtherLine("CID 20 10.00 2 1"),
     OtherLine("vat 5 5 51 1")}

VatItems == VatRows \cup VatOtherLines

VatInputs == UNION {[1..n -> VatItems] : n \in 1..MaxLines}

TextsOf(items) == [i \in DOMAIN items |-> items[i].text]

InitVat ==
    /\ upc = "call"
    /\ args \in {[fn |-> "vat", items |-> it] : it \in VatInputs}
                \cup {[fn |-> "tiers", items |-> <<row>>] : row \in VatRows}
    /\ ret = <<>>
    /\ NoApp

CallVat ==
    /\ upc = "call"
    /\ args.fn = "vat"
    /\ ret' = extract_vat_amount_from_tax_table(TextsOf(args.items))
    /\ upc' = "ret"
    /\ UNCHANGED <<args, app_vars>>

\* the two tiers of the function, each on the same single line: lines
\* 278-297 and lines 299-324
CallTiers ==
    /\ upc = "call"
    /\ args.fn = "tiers"
    /\ ret' = [primary |-> VatPrimary(TextsOf(args.items)),
               fallback |-> VatFallback(TextsOf(args.items))]
    /\ upc' = "ret"
    /\ UNCHANGED <<args, app_vars>>

NextVat == CallVat \/ CallTiers

SpecVat == InitVat /\ [][NextVat]_vars

\* what the flag gating lets through of a row
Gate(row) == IF row.flag = "1" THEN row.amount ELSE 0

MentionsVat(text) == Contains(text, "VAT") \/ Contains(text, "VTD")

\* the first line that holds VAT or VTD, 0 when none does
FirstVatLine(items) ==
    IF \E i \in DOMAIN items : MentionsVat(items[i].text)
    THEN CHOOSE i \in DOMAIN items :
            /\ MentionsVat(items[i].text)
            /\ \A j \in 1..(i - 1) : ~MentionsVat(items[j].text)
    ELSE 0

VatReturned == upc = "ret" /\ args.fn = "vat"

\* C1 as stated: whenever the line sequence holds a VAT or VTD row of the
\* documented form (base, rate, amount, trailing flag), the parser returns
\* that row's amount if its flag is 1 and 0.0 if its flag is 0.
C1_AnyRowGated ==
    VatReturned =>
        \A i \in DOMAIN args.items :
            args.items[i].kind = "row" => ret = Gate(args.items[i])

\* C1 amended: when the first line of the sequence that holds VAT or VTD is
\* a row of the documented form, the parser returns that row's amount
\* (commas stripped) if its flag is 1 and 0.0 if its flag is 0; rows after
\* it have no effect.
C1_FirstRowGated ==
    VatReturned =>
        LET i == FirstVatLine(args.items)
        IN  (i # 0 /\ args.items[i].kind = "row") => ret = Gate(args.items[i])

C1_Witness ==
    /\ VatReturned
    /\ Len(args.items) = 2
    /\ args.items[1].kind = "other"
    /\ args.items[2].kind = "row"
    /\ args.items[2].flag = "1"
    /\ ret = 314821

TiersReturned == upc = "ret" /\ args.fn = "tiers"

\* C22: for every single line of the form VAT or VTD, base, rate with
\* decimals, amount, flag 0 or 1, the pattern tier returns a value and the
\* line-by-line tier computes the same value.
C22_TiersAgree ==
    (TiersReturned /\ Contains(args.items[1].text, ".")) =>
        ret.primary.ok /\ ret.fallback = ret.primary.val

-----------------------------------------------------------------------------
(* expand_rect called on label rectangles lying within the page.           *)

PageSizes == {Pt(4), Pt(12)}

Pads == {0, Pt(1), Pt(80)}

GridUpTo(size) == {c \in {0, Pt(3), Pt(4), Pt(10), Pt(12)} : c <= size}

BarePage(w, h) == [width |-> w, height |-> h, blocks |-> <<>>, words |-> <<>>]

\* the rectangles with x0 <= x1 and y0 <= y1 inside the page
RectsWithin(page) ==
    {r \in [x0 : GridUpTo(page.width), y0 : GridUpTo(page.height),
            x1 : GridUpTo(page.width), y1 : GridUpTo(page.height)] :
        r.x0 <= r.x1 /\ r.y0 <= r.y1}

ExpandInputs ==
    UNION {{[fn |-> "expand", page |-> BarePage(w, h), rect |-> r,
             right_px |-> rp, down_px |-> dp] :
                r \in RectsWithin(BarePage(w, h)), rp \in Pads, dp \in Pads} :
           w \in PageSizes, h \in PageSizes}

InitExpand ==
    /\ upc = "call"
    /\ args \in ExpandInputs
    /\ ret = <<>>
    /\ NoApp

CallExpand ==
    /\ upc = "call"
    /\ args.fn = "expand"
    /\ ret' = expand_rect(args.rect, args.page, args.right_px, args.down_px)
    /\ upc' = "ret"
    /\ UNCHANGED <<args, app_vars>>

NextExpand == CallExpand

SpecExpand == InitExpand /\ [][NextExpand]_vars

ExpandReturned == upc = "ret" /\ args.fn = "expand"

\* all four edges of r lie in [0, width] x [0, height]
InsidePage(r, page) ==
    /\ 0 <= r.x0 /\ r.x0 <= page.width
    /\ 0 <= r.x1 /\ r.x1 <= page.width
    /\ 0 <= r.y0 /\ r.y0 <= page.height
    /\ 0 <= r.y1 /\ r.y1 <= page.height

\* C4 as stated: for every page, every label rectangle within the page and
\* all non-negative paddings, the cage expand_rect returns lies inside
\* [0, pageWidth] x [0, pageHeight].
C4_CageInsidePage == ExpandReturned => InsidePage(ret, args.page)

\* C4 amended: the cage lies inside [0, pageWidth] x [0, pageHeight] for
\* every page that is at least 5 points wide and 5 points high.
C4_CageInsidePageOfFivePoints ==
    (ExpandReturned /\ args.page.width >= Pt(5) /\ args.page.height >= Pt(5))
        => InsidePage(ret, args.page)

C4_Witness ==
    /\ ExpandReturned
    /\ args.page.width >= Pt(5) /\ args.page.height >= Pt(5)
    /\ args.rect.x1 + args.right_px > args.page.width
    /\ args.rect.y1 + args.down_px > args.page.height
    /\ ret.x1 = args.page.width - Pt(5)
    /\ ret.y1 = args.page.height - Pt(5)

\* C17: for every label rectangle on the page, the right and bottom edges
\* included, and all non-negative paddings, the cage expand_rect returns
\* has x0 <= x1 and y0 <= y1.
C17_CageWellFormed ==
    ExpandReturned => ret.x0 <= ret.x1 /\ ret.y0 <= ret.y1

-----------------------------------------------------------------------------
(* find_label_rect_on_page called on pages of a few blocks and words.      *)

MaxBlocks == 2

MaxPageWords == 2

BlockTexts == {" Consignee\n", "2. CONSIGNEE (name)", "Exporter\n", "Tax Base Rate"}

WordTexts == {"Consignee", "amount", "Rate:", "Exporter"}

KeywordSets == {{"Consignee"}, {"Amount", "Rate", "Tax Base"}}

\* the i-th block and the i-th word of a page lie at places of their own
BlockAt(i, text) ==
    [x0 |-> Pt(1), y0 |-> Pt(10 * i), x1 |-> Pt(9), y1 |-> Pt(10 * i + 3),
     text |-> text]

WordAt(i, text) ==
    [x0 |-> Pt(3 * i), y0 |-> Pt(10 * i + 1), x1 |-> Pt(3 * i + 2),
     y1 |-> Pt(10 * i + 2), text |-> text]

LocatePages ==
    {[width |-> Pt(100), height |-> Pt(100),
      blocks |-> [i \in DOMAIN bt |-> BlockAt(i, bt[i])],
      words |-> [i \in DOMAIN wt |-> WordAt(i, wt[i])]] :
        bt \in SeqsUpTo(BlockTexts, MaxBlocks),
        wt \in SeqsUpTo(WordTexts, MaxPageWords)}

InitLocate ==
    /\ upc = "call"
    /\ args \in {[fn |-> "locate", page |-> pg, keywords |-> K] :
                    pg \in LocatePages, K \in KeywordSets}
    /\ ret = <<>>
    /\ NoApp

CallLocate ==
    /\ upc = "call"
    /\ args.fn = "locate"
    /\ ret' = find_label_rect_on_page(args.page, args.keywords)
    /\ upc' = "ret"
    /\ UNCHANGED <<args, app_vars>>

NextLocate == CallLocate

SpecLocate == InitLocate /\ [][NextLocate]_vars

LocateReturned == upc = "ret" /\ args.fn = "locate"

\* the text holds, case-insensitively, a keyword of K as a substring
HoldsKeyword(text, K) == \E k \in K : Contains(Lower(text), Lower(k))

\* the indices of the tuples of seq whose text holds a keyword
Matching(seq, K) == {i \in DOMAIN seq : HoldsKeyword(seq[i].text, K)}

\* C8 as stated: when some block's text holds a keyword, the rect and the
\* full text of the first such block in block order are returned, whatever
\* the words are.
C8_FirstBlockFullText ==
    (LocateReturned /\ Matching(args.page.blocks, args.keywords) # {}) =>
        LET b == args.page.blocks[Least(Matching(args.page.blocks, args.keywords))]
        IN  ~ret.none /\ ret.rect = RectOf(b) /\ ret.text = b.text

\* C8 amended: when some block's text holds a keyword, the rect of the
\* first such block in block order is returned together with that block's
\* text stripped of leading and trailing whitespace (case kept), whatever
\* the words are.
C8_FirstBlockStrippedText ==
    (LocateReturned /\ Matching(args.page.blocks, args.keywords) # {}) =>
        LET b == args.page.blocks[Least(Matching(args.page.blocks, args.keywords))]
        IN  ~ret.none /\ ret.rect = RectOf(b) /\ ret.text = Strip(b.text)

C8_Witness ==
    /\ LocateReturned
    /\ Cardinality(Matching(args.page.blocks, args.keywords)) = 2
    /\ Matching(args.page.words, args.keywords) # {}
    /\ args.page.blocks[1].text # args.page.blocks[2].text
    /\ args.page.blocks[1].text # Strip(args.page.blocks[1].text)
    /\ ret.rect = RectOf(args.page.blocks[1])

\* C9: a word is returned only when no block holds a keyword; then the
\* first word in word order that holds one is returned, and None when no
\* word holds one either.
C9_WordsOnlyAfterBlocks ==
    LocateReturned =>
        LET bm == Matching(args.page.blocks, args.keywords)
            wm == Matching(args.page.words, args.keywords)
        IN  /\ (bm # {}) => (~ret.none /\ \E i \in DOMAIN args.page.blocks :
                                ret.rect = RectOf(args.page.blocks[i]))
            /\ (bm = {} /\ wm # {}) =>
                    /\ ~ret.none
                    /\ ret.rect = RectOf(args.page.words[Least(wm)])
                    /\ ret.text = Strip(args.page.words[Least(wm)].text)
            /\ (bm = {} /\ wm = {}) => ret = None

C9_Witness ==
    /\ LocateReturned
    /\ args.page.blocks # <<>>
    /\ Matching(args.page.blocks, args.keywords) = {}
    /\ Cardinality(Matching(args.page.words, args.keywords)) = 2
    /\ args.page.words[1].text # args.page.words[2].text
    /\ ret.rect = RectOf(args.page.words[1])

-----------------------------------------------------------------------------
(* extract_text_in_rect called on the same words in two emission orders.   *)

MaxWords == 2

\* tops 10.000, 10.040 (same line as 10.000 to one decimal) and 10.200
WordTops == {10000, 10040, 10200}

LineWords ==
    {[x0 |-> x, y0 |-> y, x1 |-> x + Pt(1), y1 |-> y + Pt(1), text |-> t] :
        x \in {Pt(1), Pt(3)}, y \in WordTops, t \in {"A", "B"}}

Cages == {Rect(0, 0, Pt(20), Pt(20)), Rect(0, 0, Pt(2), Pt(20))}

\* the sequences with the elements of seq in another order
PermutationsOf(seq) ==
    {[i \in DOMAIN seq |-> seq[f[i]]] :
        f \in {g \in [DOMAIN seq -> DOMAIN seq] :
                  \A i, j \in DOMAIN seq : g[i] = g[j] => i = j}}

WordsPage(words) ==
    [width |-> Pt(20), height |-> Pt(20), blocks |-> <<>>, words |-> words]

InitLines ==
    /\ upc = "call"
    /\ args \in UNION {{[fn |-> "lines", words |-> ws, permuted |-> ps,
                         rect |-> c] : ps \in PermutationsOf(ws), c \in Cages} :
                       ws \in SeqsUpTo(LineWords, MaxWords)}
    /\ ret = <<>>
    /\ NoApp

CallLines ==
    /\ upc = "call"
    /\ args.fn = "lines"
    /\ ret' = [lines |-> extract_text_in_rect(WordsPage(args.words), args.rect),
               permuted |-> extract_text_in_rect(WordsPage(args.permuted), args.rect)]
    /\ upc' = "ret"
    /\ UNCHANGED <<args, app_vars>>

NextLines == CallLines

SpecLines == InitLines /\ [][NextLines]_vars

LinesReturned == upc = "ret" /\ args.fn = "lines"

\* C2: for any words and any cage, the lines extracted from a permutation
\* of the page's word sequence are the lines extracted from the sequence.
C2_OrderIndependent == LinesReturned => ret.lines = ret.permuted

\* the words of the page whose rectangle intersects the cage
Intersecting(words, rect) ==
    {i \in DOMAIN words : Intersects(RectOf(words[i]), rect)}

\* the one-decimal keys of those words
RowKeys(words, rect) ==
    {Round1(words[i].y0) : i \in Intersecting(words, rect)}

\* the ways of writing the words of row from left to right, one space
\* between two words
LeftToRight(words, row) ==
    {Join([k \in 1..Cardinality(row) |-> words[f[k]].text]) :
        f \in {g \in [1..Cardinality(row) -> row] :
                  /\ \A a, b \in 1..Cardinality(row) : g[a] = g[b] => a = b
                  /\ \A a, b \in 1..Cardinality(row) :
                        a < b => words[g[a]].x0 <= words[g[b]].x0}}

\* C19: the lines returned are, in ascending order of the one-decimal key
\* of the top coordinate, one line for each key of the words that
\* intersect the cage, made of exactly the words of that key from left to
\* right with single spaces between them; no line is empty or has blanks
\* at its ends.
C19_ReadingOrder ==
    LinesReturned =>
        LET keys == RowKeys(args.words, args.rect)
        IN  /\ Len(ret.lines) = Cardinality(keys)
            /\ \A n \in DOMAIN ret.lines :
                  LET y == CHOOSE k \in keys : Cardinality({m \in keys : m <= k}) = n
                      row == {i \in Intersecting(args.words, args.rect) :
                                 Round1(args.words[i].y0) = y}
                  IN  /\ ret.lines[n] \in LeftToRight(args.words, row)
                      /\ ret.lines[n] # ""
                      /\ Strip(ret.lines[n]) = ret.lines[n]

\* two words of one key, the right one emitted first and higher up by less
\* than the key tells apart, come out as one line from left to right
C19_Witness ==
    /\ LinesReturned
    /\ Len(args.words) = 2
    /\ args.words[1].x0 = Pt(3) /\ args.words[1].y0 = 10000
    /\ args.words[1].text = "A"
    /\ args.words[2].x0 = Pt(1) /\ args.words[2].y0 = 10040
    /\ args.words[2].text = "B"
    /\ args.rect = Rect(0, 0, Pt(20), Pt(20))
    /\ ret.lines = <<"B A">>

-----------------------------------------------------------------------------
(* The field parsers called on lines made of a few tokens.                 *)

MaxTokens == 3

\* what a customs reference cage may hold, a token to the line
InvoiceTokens ==
    {"S", "Ref:A", "52194", "7", "30/09/2025", "01/02/2024",
     "S  52194\t30/09/2025", "S52194"}

InvoiceInputs ==
    {[fn |-> "invoice", lines |-> l] : l \in SeqsUpTo(InvoiceTokens, MaxTokens)}

\* amount tokens and what they are worth
GrossAmounts == {<<"499,180", 499180>>, <<"1,0", 10>>, <<"7", 7>>, <<",5", 5>>}

\* what a total declaration cage may hold, line by line
GrossLines ==
    {"499,180", ",5", ",", "Total Declaration", "total declaration",
     "499,180 Total Declaration", ",Total Declaration",
     "1,0  Total Declaration 7 Total Declaration"}

GrossInputs ==
    {[fn |-> "gross", lines |-> l] : l \in SeqsUpTo(GrossLines, MaxTokens)}

\* what a customs reference cage may hold beside the invoice, a token to
\* the line
OfficeTokens ==
    {"CBBI2", "Colombo", "ABCDE1", "CBI12", "CBBI123", "x", "CB1", "7"}

OfficeInputs ==
    {[fn |-> "office", lines |-> l] : l \in SeqsUpTo(OfficeTokens, MaxTokens)}

\* a line of a tax table cage: its text, the tokens of digits and commas
\* it holds, and the amount and the flag the row pattern finds in it
TaxLine(text, numbers, row) == [text |-> text, numbers |-> numbers, row |-> row]

TaxLines ==
    {TaxLine("VAT 1,749,003 18.00 314,821 1",
             <<"1,749,003", "18", "00", "314,821", "1">>, <<"314,821", "1">>),
     TaxLine("VAT 20 8 , 1", <<"20", "8", ",", "1">>, <<",", "1">>),
     TaxLine("VTD 5 6 7 0", <<"5", "6", "7", "0">>, <<"7", "0">>),
     TaxLine("Vat: 1 2 3 1", <<"1", "2", "3", "1">>, <<>>),
     TaxLine("vat 5 6 7", <<"5", "6", "7">>, <<>>),
     TaxLine("vat 1 2 ,", <<"1", "2", ",">>, <<>>),
     TaxLine("VAT 9", <<"9">>, <<>>),
     TaxLine("CID 20 10.00 2 1", <<"20", "10", "00", "2", "1">>, <<>>)}

TaxInputs ==
    {[fn |-> "tax", items |-> l] : l \in SeqsUpTo(TaxLines, MaxTokens)}

\* a line of a consignee cage: its text, and the place in company_mappings
\* of the first key it holds (0 when it holds none)
CompanyLine(text, key) == [text |-> text, key |-> key]

CompanyLines ==
    {CompanyLine("Consignee", 0),
     CompanyLine("2. consignee:", 0),
     CompanyLine(" Acme Ltd ", 0),
     CompanyLine("x", 0),
     CompanyLine("Bodyline Pvt Ltd", 2),
     CompanyLine("MAS CAPITAL", 4),
     CompanyLine("Unichela (Pvt) Ltd", 6)}

CompanyInputs ==
    {[fn |-> "company", items |-> l] : l \in SeqsUpTo(CompanyLines, MaxTokens)}

InitParsers ==
    /\ upc = "call"
    /\ args \in InvoiceInputs \cup GrossInputs \cup OfficeInputs
                \cup TaxInputs \cup CompanyInputs
    /\ ret = <<>>
    /\ NoApp

\* lines 434 and 443, on the same lines
CallInvoice ==
    /\ upc = "call"
    /\ args.fn = "invoice"
    /\ ret' = [invoice_data |-> extract_invoice_number_from_customs_ref(args.lines),
               invoice_date_str |-> extract_invoice_date_from_customs_ref(args.lines)]
    /\ upc' = "ret"
    /\ UNCHANGED <<args, app_vars>>

\* line 457
CallGross ==
    /\ upc = "call"
    /\ args.fn = "gross"
    /\ ret' = extract_gross_value_from_total_declaration(args.lines)
    /\ upc' = "ret"
    /\ UNCHANGED <<args, app_vars>>

\* line 429
CallOffice ==
    /\ upc = "call"
    /\ args.fn = "office"
    /\ ret' = extract_office_code_from_customs_ref(args.lines)
    /\ upc' = "ret"
    /\ UNCHANGED <<args, app_vars>>

\* line 478
CallTax ==
    /\ upc = "call"
    /\ args.fn = "tax"
    /\ ret' = extract_vat_amount_from_tax_table(TextsOf(args.items))
    /\ upc' = "ret"
    /\ UNCHANGED <<args, app_vars>>

\* line 415
CallCompany ==
    /\ upc = "call"
    /\ args.fn = "company"
    /\ ret' = extract_company_name_from_consignee(TextsOf(args.items))
    /\ upc' = "ret"
    /\ UNCHANGED <<args, app_vars>>

NextParsers == CallInvoice \/ CallGross \/ CallOffice \/ CallTax \/ CallCompany

SpecParsers == InitParsers /\ [][NextParsers]_vars

InvoiceReturned == upc = "ret" /\ args.fn = "invoice"

\* every character of t from a to b is of class cls
AllIn(t, a, b, cls) == \A k \in a..b : Ch(t, k) \in cls

\* dd/mm/yyyy is written in t from position p on
DateWritten(t, p) ==
    /\ p >= 1 /\ p + 9 <= Len(t)
    /\ \A k \in 1..10 :
          IF Ch("dd/dd/dddd", k) = "d" THEN Ch(t, p + k - 1) \in Digits
          ELSE Ch(t, p + k - 1) = "/"

\* the places where t holds an uppercase letter, whitespace, a digit run,
\* whitespace and a date: where the letter is and what is written there
InvoicesWritten(t) ==
    LET Letters == {a \in 1..Len(t) : Ch(t, a) \in UpperSet}
        Numbers(a) == {n \in (a + 2)..Len(t) : AllIn(t, a + 1, n - 1, Spaces)}
        Gaps(n) == {g \in (n + 1)..Len(t) : AllIn(t, n, g - 1, Digits)}
        Dates(g) == {d \in (g + 1)..Len(t) :
                        AllIn(t, g, d - 1, Spaces) /\ DateWritten(t, d)}
    IN  UNION {UNION {UNION {{[at |-> a, number |-> n, space |-> g, date |-> d] :
                                 d \in Dates(g)} :
                             g \in Gaps(n)} :
                      n \in Numbers(a)} :
               a \in Letters}

FirstInvoiceWritten(t) ==
    CHOOSE o \in InvoicesWritten(t) : \A u \in InvoicesWritten(t) : o.at <= u.at

DatesWritten(t) == {p \in 1..Len(t) : DateWritten(t, p)}

\* C12: for a text that holds an uppercase letter, whitespace, a digit run,
\* whitespace and a dd/mm/yyyy date, the invoice parser returns the letter,
\* the digit run and the year of the date of the first such place, and for
\* a text that holds a dd/mm/yyyy date the date parser returns the first one.
C12_InvoiceTripleAndFirstDate ==
    InvoiceReturned =>
        LET t == Join(args.lines)
        IN  /\ InvoicesWritten(t) # {} =>
                  LET o == FirstInvoiceWritten(t)
                  IN  ret.invoice_data =
                          [prefix |-> Ch(t, o.at),
                           number |-> SubSeq(t, o.number, o.space - 1),
                           year |-> SubSeq(t, o.date + 6, o.date + 9)]
            /\ DatesWritten(t) # {} =>
                  ret.invoice_date_str =
                      SubSeq(t, Least(DatesWritten(t)), Least(DatesWritten(t)) + 9)

\* the triple is written with wider whitespace after another date
C12_Witness ==
    /\ InvoiceReturned
    /\ args.lines = <<"01/02/2024", "S  52194\t30/09/2025">>
    /\ ret.invoice_data = [prefix |-> "S", number |-> "52194", year |-> "2025"]
    /\ ret.invoice_date_str = "01/02/2024"

GrossReturned == upc = "ret" /\ args.fn = "gross"

AmountChars == Digits \cup {","}

\* the tokens of digits and commas of t: where each begins and where it ends
AmountTokens(t) ==
    LET Inside(p) == p >= 1 /\ p <= Len(t) /\ Ch(t, p) \in AmountChars
        Begins == {p \in 1..Len(t) : Inside(p) /\ ~Inside(p - 1)}
        Ends == {q \in 1..Len(t) : Inside(q) /\ ~Inside(q + 1)}
    IN  {[from |-> p, to |-> Least({q \in Ends : q >= p})] : p \in Begins}

\* the token r of t comes right before the phrase, whitespace apart
BeforePhrase(t, r) ==
    \E q \in (r.to + 1)..Len(t) :
        AllIn(t, r.to + 1, q - 1, Spaces) /\ StartsAt(t, "Total Declaration", q)

FirstOf(tokens) == CHOOSE r \in tokens : \A u \in tokens : r.from <= u.from

\* what the token r of t is worth, -1 when it holds no digit
WorthOf(t, r) ==
    LET text == SubSeq(t, r.from, r.to)
    IN  IF \E a \in GrossAmounts : a[1] = text
        THEN (CHOOSE a \in GrossAmounts : a[1] = text)[2]
        ELSE -1

\* what the previous-line tier may return on lines
FallbackWorths(lines) ==
    {WorthOf(lines[i - 1], FirstOf(AmountTokens(lines[i - 1]))) :
        i \in {j \in 2..Len(lines) :
                  /\ Contains(Lower(lines[j]), "total declaration")
                  /\ AmountTokens(lines[j - 1]) # {}}}

\* C13: when a token of digits and commas comes right before the phrase
\* "Total Declaration", the parser returns what the first such token is
\* worth with its commas stripped; when that token holds no digit it
\* returns 0 or a value of the previous-line tier.
C13_GrossOfTokenBeforePhrase ==
    GrossReturned =>
        LET t == Join(args.lines)
            places == {r \in AmountTokens(t) : BeforePhrase(t, r)}
        IN  places # {} =>
                LET worth == WorthOf(t, FirstOf(places))
                IN  IF worth >= 0 THEN ret = worth
                    ELSE ret = 0 \/ ret \in FallbackWorths(args.lines) \ {-1}

\* the amount is returned with its commas stripped, a token without
\* digits standing on the line before
C13_Witness ==
    /\ GrossReturned
    /\ args.lines = <<",", "499,180 Total Declaration">>
    /\ ret = 499180

OfficeReturned == upc = "ret" /\ args.fn = "office"

\* the parts of t made of 3 or 4 uppercase letters and 1 or 2 digits that
\* whitespace and a letter follow
OfficeCodesWritten(t) ==
    {c \in UNION {{[from |-> p, digits |-> p + n, to |-> p + n + m - 1] :
                       n \in {3, 4}, m \in {1, 2}} :
                   p \in 1..Len(t)} :
        /\ c.to < Len(t)
        /\ AllIn(t, c.from, c.digits - 1, UpperSet)
        /\ AllIn(t, c.digits, c.to, Digits)
        /\ \E q \in (c.to + 2)..Len(t) :
              AllIn(t, c.to + 1, q - 1, Spaces) /\ Ch(t, q) \in LetterSet}

TaxReturned == upc = "ret" /\ args.fn = "tax"

CompanyReturned == upc = "ret" /\ args.fn = "company"

\* what a token of digits and commas is worth, -1 when it holds no digit
TaxWorth(token) ==
    CASE token = "314,821" -> 314821
      [] token = "7" -> 7
      [] token = "3" -> 3
      [] token = "00" -> 0
      [] OTHER -> -1

\* the first line of items that the row pattern matches, 0 when none
FirstRow(items) ==
    IF \E i \in DOMAIN items : items[i].row # <<>>
    THEN Least({i \in DOMAIN items : items[i].row # <<>>})
    ELSE 0

\* the full name of the first key of company_mappings that items hold
NamedCompany(items) ==
    CompanyMappings[Least({items[i].key : i \in DOMAIN items} \ {0})][2]

\* the place of the gross value parser's pattern in the joined lines
GrossPlaces(lines) ==
    {r \in AmountTokens(Join(lines)) : BeforePhrase(Join(lines), r)}

FallbackReached(items) ==
    \/ FirstRow(items) = 0
    \/ LET row == items[FirstRow(items)].row
       IN  row[2] = "1" /\ TaxWorth(row[1]) < 0

\* the line mentions VAT or VTD in any case and holds three tokens or more
HasAmount(item) ==
    MentionsVat(Upper(item.text)) /\ Len(item.numbers) >= 3

\* what the rule of the line-by-line tier makes of such a line: the third
\* token, gated by the fourth when there is one; -1 when the token to
\* return holds no digit
LineValue(item) ==
    IF Len(item.numbers) >= 4 /\ item.numbers[4] # "1" THEN 0
    ELSE TaxWorth(item.numbers[3])

-----------------------------------------------------------------------------
(* extract_vat_from_summary_of_taxes called on documents of a few pages.    *)

MaxPages == 2

\* a page: what is printed on it, and the first token of digits and commas
\* of each line of the summary cage that holds VAT in any case ("" for a
\* line without a token)
SummaryPage(group, firsts) == [page |-> PageOf(<<group>>), firsts |-> firsts]

SummaryPageKinds ==
    {SummaryPage(Group(20, 400, <<"Taxes">>, <<<<"VAT", "5">>>>), <<>>),
     SummaryPage(Group(20, 400, SummaryLabel, <<<<"CID", "2,000">>>>), <<>>),
     SummaryPage(Group(20, 400, SummaryLabel,
                       <<<<"CID", "2,000">>, <<"VAT", "314,821">>, <<"Vat", "7">>>>),
                 <<"314,821", "7">>),
     SummaryPage(Group(20, 400, SummaryLabel, <<<<"vat:", "9,000", "18">>>>),
                 <<"9,000">>),
     SummaryPage(Group(20, 400, SummaryLabel, <<<<"VAT">>, <<"VAT", "31">>>>),
                 <<"", "31">>),
     SummaryPage(Group(20, 400, SummaryLabel, <<<<"VAT", ",", "5">>, <<"Vat", "7">>>>),
                 <<",", "7">>),
     SummaryPage(Group(20, 400, SummaryLabel, <<<<"VAT", ",">>>>), <<",">>),
     SummaryPage(EdgeGroup(400, SummaryLabel), <<>>)}

SummaryInputs ==
    {[fn |-> "summary", pages |-> l] : l \in SeqsUpTo(SummaryPageKinds, MaxPages)}

InitSummary ==
    /\ upc = "call"
    /\ args \in SummaryInputs
    /\ ret = <<>>
    /\ NoApp

\* line 463
CallSummary ==
    /\ upc = "call"
    /\ args.fn = "summary"
    /\ ret' = extract_vat_from_summary_of_taxes(
                  [pages |-> [i \in DOMAIN args.pages |-> args.pages[i].page]])
    /\ upc' = "ret"
    /\ UNCHANGED <<args, app_vars>>

NextSummary == CallSummary

SpecSummary == InitSummary /\ [][NextSummary]_vars

SummaryReturned == upc = "ret" /\ args.fn = "summary"

\* what a token of digits and commas is worth, -1 when it holds no digit
SummaryWorth(token) ==
    CASE token = "314,821" -> 314821
      [] token = "9,000" -> 9000
      [] token = "31" -> 31
      [] token = "7" -> 7
      [] OTHER -> -1

RECURSIVE FirstsOf(_)
\* the first tokens of the VAT lines of the pages, page after page, the
\* lines without a token left out
FirstsOf(pages) ==
    IF pages = <<>> THEN <<>>
    ELSE SelectSeq(Head(pages).firsts, LAMBDA t : t # "") \o FirstsOf(Tail(pages))

\* C20 as stated: the pages are scanned in order and the first line of a
\* summary cage that holds VAT in any case and a token decides: its first
\* token is returned with the commas stripped (0 being what a token
\* without digits is worth); 0 is returned when there is no such line.
C20_FirstVatLineDecides ==
    SummaryReturned =>
        LET firsts == FirstsOf(args.pages)
        IN  IF firsts = <<>> THEN ret = 0
            ELSE ret = Max(0, SummaryWorth(firsts[1]))

\* C20 amended: the same of the first such line whose first token holds a
\* digit; a line whose first token holds no digit is passed over.
C20_FirstParsedVatLineDecides ==
    SummaryReturned =>
        LET firsts == SelectSeq(FirstsOf(args.pages),
                                LAMBDA t : SummaryWorth(t) >= 0)
        IN  IF firsts = <<>> THEN ret = 0
            ELSE ret = SummaryWorth(firsts[1])

\* the first VAT line is on the second page, under a line of another tax
\* and over another VAT line, the first page having a cage without one
C20_Witness ==
    /\ SummaryReturned
    /\ Len(args.pages) = 2
    /\ args.pages[1].firsts = <<>>
    /\ ~find_label_rect_on_page(args.pages[1].page, {"Summary of Taxes"}).none
    /\ args.pages[2].firsts = <<"314,821", "7">>
    /\ ret = 314821

-----------------------------------------------------------------------------
(* extract_label_cage_text called on documents of a few pages, with and    *)
(* without a page number.                                                  *)

\* a page: what is printed on it, and the label, the cage and the lines of
\* the cage of "Summary of Taxes" on it (labelled FALSE: the page does not
\* print the label)
CagePage(group, cage) == [page |-> PageOf(<<group>>), cage |-> cage]

NoCage == [labelled |-> FALSE]

CageAt(label, x0, y0, x1, y1, lines) ==
    [labelled |-> TRUE, label |-> label,
     rect |-> [x0 |-> Pt(x0), y0 |-> Pt(y0), x1 |-> Pt(x1), y1 |-> Pt(y1)],
     lines |-> lines]

CagePageKinds ==
    {CagePage(NoGroup, NoCage),
     CagePage(Group(20, 400, <<"Taxes">>, <<<<"VAT", "5">>>>), NoCage),
     CagePage(Group(20, 400, SummaryLabel, <<<<"CID", "2,000">>, <<"VAT", "314,821">>>>),
              CageAt("Summary of Taxes", 16, 398, 246, 560,
                     <<"Summary of Taxes", "CID 2,000", "VAT 314,821">>)),
     CagePage(Group(300, 100, <<"SUMMARY", "OF", "TAXES:">>, <<<<"vat:", "9,000">>>>),
              CageAt("SUMMARY OF TAXES:", 296, 98, 531, 260,
                     <<"SUMMARY OF TAXES:", "vat: 9,000">>)),
     CagePage(EdgeGroup(400, SummaryLabel),
              CageAt("Summary of Taxes", 592, 398, 595, 560, <<>>))}

\* page_no is None or the index of a page of the document
CageInputs ==
    {[fn |-> "cage", pages |-> l, page_no |-> n] :
        l \in SeqsUpTo(CagePageKinds, MaxPages), n \in {NoPage} \cup (0..MaxPages - 1)}

InitCage ==
    /\ upc = "call"
    /\ args \in {a \in CageInputs : a.page_no < Len(a.pages)}
    /\ ret = <<>>
    /\ NoApp

\* the calls of lines 339-345 (a page number given) and of lines 407, 421,
\* 449 and 470 (none given)
CallCage ==
    /\ upc = "call"
    /\ args.fn = "cage"
    /\ ret' = extract_label_cage_text(
                  [pages |-> [i \in DOMAIN args.pages |-> args.pages[i].page]],
                  {"Summary of Taxes"}, args.page_no, Pt(150), Pt(150))
    /\ upc' = "ret"
    /\ UNCHANGED <<args, app_vars>>

NextCage == CallCage

SpecCage == InitCage /\ [][NextCage]_vars

CageReturned == upc = "ret" /\ args.fn = "cage"

\* C28: called without a page number, extract_label_cage_text returns the
\* page index, the label, the cage and the lines of the cage of the first
\* page, in ascending order, that prints the label, also when the cage
\* holds no line; it returns None exactly when no page prints the label.
C28_LowestLabelledPage ==
    (CageReturned /\ args.page_no = NoPage) =>
        LET labelled == {i \in DOMAIN args.pages : args.pages[i].cage.labelled}
        IN  IF labelled = {} THEN ret = None
            ELSE LET cage == args.pages[Least(labelled)].cage
                 IN  /\ ~ret.none
                     /\ ret.page = Least(labelled) - 1
                     /\ ret.label = cage.label
                     /\ ret.rect = cage.rect
                     /\ ret.lines = cage.lines

\* the second page prints the label against the right edge, the first
\* page prints another label: the cage of the second page is returned,
\* without a line
C28_Witness ==
    /\ CageReturned
    /\ args.page_no = NoPage
    /\ Len(args.pages) = 2
    /\ ~args.pages[1].cage.labelled
    /\ args.pages[1].page.words # <<>>
    /\ args.pages[2].cage.labelled
    /\ ~ret.none
    /\ ret.page = 1
    /\ ret.lines = <<>>

=============================================================================
